---- MODULE Spec2Model ----
(***************************************************************************)
(* Model of YTTranscribe: the Transcriber (backend selection, API size     *)
(* ceiling and compression, chunk merging), the AudioExtractor helpers it  *)
(* calls, and the yt2transcript.main pipeline.                             *)
(*                                                                         *)
(* Operations that call each other (main -> transcribe_chunked_audio ->    *)
(* transcribe -> transcribe_with_api -> compress_audio_for_api) are        *)
(* operators that take a world w = [files, local_model, events] and return *)
(* [w |-> the world afterwards, ret |-> the return value or the raised     *)
(* exception].  The outcomes of the external programs and services (ffmpeg,*)
(* the OpenAI service, the faster-whisper recognizer) are inputs, passed   *)
(* as an oracle record and enumerated by the actions.                      *)
(*                                                                         *)
(* Times are whole seconds (the code uses floats); sizes are bytes.        *)
(* Strings that the code strips or joins are sequences of one-character    *)
(* strings.                                                                *)
(***************************************************************************)
EXTENDS Integers, Sequences, FiniteSets, TLC

VARIABLES
    api_key,                  \* Transcriber.api_key is set (truthy)
    OPENAI_AVAILABLE,         \* module flag of transcriber.py
    FASTER_WHISPER_AVAILABLE, \* module flag of transcriber.py
    audio_extractor,          \* Transcriber.audio_extractor is attached
    files,                    \* the file system: path -> size in bytes, NoFile when absent
    local_model,              \* Transcriber.local_model: "None" or the loaded model's size
    events,                   \* what the running/last operation did, in order
    pc,                       \* position of the caller of the Transcriber
    call,                     \* the arguments and oracle of the last call
    ret,                      \* what the last call returned or raised
    chunk_rets,               \* per chunk, what self.transcribe returned or raised
    mpc,                      \* position of yt2transcript.main
    args,                     \* parsed command line of yt2transcript.main
    audio_path,               \* main: path returned by download_audio, NoPath before
    output_dir,               \* main: the created output directory exists
    split_paths,              \* main: chunk_paths, what split_audio_for_processing returned
    chunked,                  \* main: transcribe_chunked_audio was used
    transcription_result,     \* main: the result record, NoResult before
    saved_files,              \* main: formats written by save_all_formats
    exit_code,                \* main: process exit status, -1 while running
    output_files,             \* FileFormatter: output path -> the lines of the file
    stdin,                    \* interactive_cli: the lines the user types, not yet read
    dirs,                     \* the output directories that exist
    runs                      \* per invocation of create_output_directory, its position

vars == <<api_key, OPENAI_AVAILABLE, FASTER_WHISPER_AVAILABLE, audio_extractor,
          files, local_model, events, pc, call, ret, chunk_rets,
          mpc, args, audio_path, output_dir, split_paths, chunked,
          transcription_result, saved_files, exit_code, output_files,
          stdin, dirs, runs>>

config == <<api_key, OPENAI_AVAILABLE, FASTER_WHISPER_AVAILABLE, audio_extractor>>
envvars == <<stdin, dirs, runs>>
mainvars == <<mpc, args, audio_path, output_dir, split_paths, chunked,
              transcription_result, saved_files, exit_code>>

----------------------------------------------------------------------------
(* Bounds *)

MaxChunks == 3

----------------------------------------------------------------------------
(* Program constants *)

MIN_SIZE == 1000                  \* check_audio_file: "Less than 1KB"
MAX_SIZE == 25 * 1024 * 1024      \* transcribe_with_api: max_size
MB == 1024 * 1024
CHUNKING_SIZE == 100 * MB         \* main: file_size_mb > 100
ESTIMATED_DURATION == 600         \* transcribe_chunked_audio: estimated_duration
CHUNK_MINUTES == 10               \* main: chunk_duration_minutes=10

----------------------------------------------------------------------------
(* Paths and files *)

NoFile == -1

\* A path is <base>[_chunk_NNN][_compressed]*.m4a
Path(base, chunk, compressed) == [base |-> base, chunk |-> chunk, compressed |-> compressed]
AudioPath == Path("audio", 0, 0)
NoPath == Path("", 0, 0)

\* f"{base_name}_compressed.m4a" with base_name = splitext(audio_path)[0]
CompressedPath(p) == [p EXCEPT !.compressed = @ + 1]

\* os.path.join(temp_dir, f"{name}_chunk_{i+1:03d}.m4a"), i counted from 1 here
ChunkPath(p, i) == [p EXCEPT !.chunk = i]

Exists(fs, p) == p \in DOMAIN fs /\ fs[p] # NoFile
GetSize(fs, p) == fs[p]
WriteFile(fs, p, size) == [q \in DOMAIN fs \cup {p} |-> IF q = p THEN size ELSE fs[q]]

----------------------------------------------------------------------------
(* Strings as sequences of characters *)

IsSpace(c) == c = " "

RECURSIVE LStrip(_)
LStrip(s) == IF s # <<>> /\ IsSpace(Head(s)) THEN LStrip(Tail(s)) ELSE s

RECURSIVE RStrip(_)
RStrip(s) == IF s # <<>> /\ IsSpace(s[Len(s)]) THEN RStrip(SubSeq(s, 1, Len(s) - 1)) ELSE s

\* str.strip()
Strip(s) == RStrip(LStrip(s))

\* ' '.join(parts)
RECURSIVE Join(_)
Join(parts) ==
    IF parts = <<>> THEN <<>>
    ELSE IF Len(parts) = 1 THEN parts[1]
    ELSE parts[1] \o <<" ">> \o Join(Tail(parts))

----------------------------------------------------------------------------
(* Return values *)

Return(v) == [ok |-> TRUE, result |-> v]
Raise(exc, msg) == [ok |-> FALSE, exc |-> exc, msg |-> msg]

MsgOpenAIUnavailable == "OpenAI library not available"
MsgNoApiKey == "OpenAI API key not provided"
MsgNotFound == "Audio file not found"
MsgTooSmall == "Audio file too small"
MsgTooLargeAfterCompression ==
    "File too large for API even after compression. Use --backend local for large files."
MsgTooLarge == "File too large for API. Use --backend local for large files."
MsgApiFailed == "OpenAI API transcription failed"
MsgFwUnavailable == "faster-whisper library not available"
MsgLocalFailed == "Local transcription failed"
MsgUnknownBackend == "Unknown backend"
MsgLaunch == "ffmpeg could not be started"

\* one entry of the log: what was called or run, on which path, with which
\* argument, and a number (the size of the file at that path at that moment,
\* or the chunk number)
Event(ev, path, arg, n) == [ev |-> ev, path |-> path, arg |-> arg, n |-> n]
Log(w, e) == [w EXCEPT !.events = Append(@, e)]

----------------------------------------------------------------------------
(* AudioExtractor.compress_audio_for_api *)

\* CompressAudioForApi re-encoding a file of exactly 25 MB
CompressAudioForApiBelowCeiling(w, p, o) ==
    LET w1 == Log(w, Event("compress_audio_for_api", p, "", w.files[p]))
        compressed_path == CompressedPath(p)
    IN  IF ~Exists(w.files, p)
        THEN [w |-> w, ret |-> Raise("OSError", MsgNotFound)]
        ELSE IF GetSize(w.files, p) < 25 * MB
        THEN [w |-> w1, ret |-> Return(p)]
        ELSE LET w2 == Log(w1, Event("ffmpeg", p, o.ffmpeg, GetSize(w.files, p))) IN
             CASE o.ffmpeg = "OSError" ->
                    [w |-> w2, ret |-> Raise("OSError", MsgLaunch)]
               [] o.ffmpeg = "CalledProcessError" ->
                    [w |-> w2, ret |-> Return(p)]
               [] OTHER ->
                    LET w3 == [w2 EXCEPT !.files = WriteFile(@, compressed_path, o.new_size)]
                    IN  IF o.new_size <= 25 * MB
                        THEN [w |-> w3, ret |-> Return(compressed_path)]
                        ELSE [w |-> w3, ret |-> Return(p)]

\* CompressAudioForApi letting ffmpeg write over its input
CompressAudioForApiInPlace(w, p, o) ==
    LET w1 == Log(w, Event("compress_audio_for_api", p, "", w.files[p]))
        compressed_path == p
    IN  IF ~Exists(w.files, p)
        THEN [w |-> w, ret |-> Raise("OSError", MsgNotFound)]
        ELSE IF GetSize(w.files, p) <= 25 * MB
        THEN [w |-> w1, ret |-> Return(p)]
        ELSE LET w2 == Log(w1, Event("ffmpeg", p, o.ffmpeg, GetSize(w.files, p))) IN
             CASE o.ffmpeg = "OSError" ->
                    [w |-> w2, ret |-> Raise("OSError", MsgLaunch)]
               [] o.ffmpeg = "CalledProcessError" ->
                    [w |-> w2, ret |-> Return(p)]
               [] OTHER ->
                    LET w3 == [w2 EXCEPT !.files = WriteFile(@, compressed_path, o.new_size)]
                    IN  IF o.new_size <= 25 * MB
                        THEN [w |-> w3, ret |-> Return(compressed_path)]
                        ELSE [w |-> w3, ret |-> Return(p)]

\* o.ffmpeg: "ok" (exit 0, output of o.new_size bytes), "CalledProcessError"
\* (non-zero exit, check=True), "OSError" (subprocess.run could not start the
\* program; only CalledProcessError is caught).
CompressAudioForApi(w, p, o) ==
    LET w1 == Log(w, Event("compress_audio_for_api", p, "", w.files[p]))
        compressed_path == CompressedPath(p)
    IN  IF ~Exists(w.files, p)
        THEN [w |-> w, ret |-> Raise("OSError", MsgNotFound)]
        ELSE IF GetSize(w.files, p) <= 25 * MB
        THEN [w |-> w1, ret |-> Return(p)]
        ELSE LET w2 == Log(w1, Event("ffmpeg", p, o.ffmpeg, GetSize(w.files, p))) IN
             CASE o.ffmpeg = "OSError" ->
                    [w |-> w2, ret |-> Raise("OSError", MsgLaunch)]
               [] o.ffmpeg = "CalledProcessError" ->
                    [w |-> w2, ret |-> Return(p)]
               [] OTHER ->
                    LET w3 == [w2 EXCEPT !.files = WriteFile(@, compressed_path, o.new_size)]
                    IN  IF o.new_size <= 25 * MB
                        THEN [w |-> w3, ret |-> Return(compressed_path)]
                        ELSE [w |-> w3, ret |-> Return(p)]

----------------------------------------------------------------------------
(* AudioExtractor.split_audio_for_processing *)

\* so.probe: "ok" (ffprobe printed so.total_duration) or "error" (ffprobe
\* could not be started, exited with non-zero status or printed no number);
\* so.fail_at: the number of the chunk whose
\* extraction fails, 0 for none; so.last_size: the size of a final chunk that
\* is shorter than the chunk length.  Full chunks have FullChunkBytes.
FullChunkBytes == 50 * MB

\* SplitLoop stopping only when the start time is past the total duration
RECURSIVE SplitLoopKeepsEmptyTail(_, _, _, _, _, _, _)
SplitLoopKeepsEmptyTail(w, i, paths, p, total_duration, chunk_duration_seconds, so) ==
    LET chunk_count == (total_duration \div chunk_duration_seconds) + 1
        start_time == i * chunk_duration_seconds
        chunk_path == ChunkPath(p, i + 1)
        size == IF start_time + chunk_duration_seconds > total_duration
                THEN so.last_size ELSE FullChunkBytes
    IN  IF i >= chunk_count \/ start_time > total_duration
        THEN [w |-> w, ret |-> Return(paths)]
        ELSE IF so.fail_at = i + 1
        THEN [w |-> Log(Log(w, Event("split_ffmpeg", chunk_path, "error", start_time)),
                        Event("split_ffmpeg_t", chunk_path, "error",
                              chunk_duration_seconds)),
              ret |-> Return(<<p>>)]
        ELSE SplitLoopKeepsEmptyTail(Log(Log([w EXCEPT !.files = WriteFile(@, chunk_path, size)],
                               Event("split_ffmpeg", chunk_path, "ok", start_time)),
                           Event("split_ffmpeg_t", chunk_path, "ok",
                                 chunk_duration_seconds)),
                       i + 1, Append(paths, chunk_path), p, total_duration,
                       chunk_duration_seconds, so)

\* SplitLoop returning the chunks made so far when an extraction fails
RECURSIVE SplitLoopKeepsPartial(_, _, _, _, _, _, _)
SplitLoopKeepsPartial(w, i, paths, p, total_duration, chunk_duration_seconds, so) ==
    LET chunk_count == (total_duration \div chunk_duration_seconds) + 1
        start_time == i * chunk_duration_seconds
        chunk_path == ChunkPath(p, i + 1)
        size == IF start_time + chunk_duration_seconds > total_duration
                THEN so.last_size ELSE FullChunkBytes
    IN  IF i >= chunk_count \/ start_time >= total_duration
        THEN [w |-> w, ret |-> Return(paths)]
        ELSE IF so.fail_at = i + 1
        THEN [w |-> Log(Log(w, Event("split_ffmpeg", chunk_path, "error", start_time)),
                        Event("split_ffmpeg_t", chunk_path, "error",
                              chunk_duration_seconds)),
              ret |-> Return(paths)]
        ELSE SplitLoopKeepsPartial(Log(Log([w EXCEPT !.files = WriteFile(@, chunk_path, size)],
                               Event("split_ffmpeg", chunk_path, "ok", start_time)),
                           Event("split_ffmpeg_t", chunk_path, "ok",
                                 chunk_duration_seconds)),
                       i + 1, Append(paths, chunk_path), p, total_duration,
                       chunk_duration_seconds, so)

\* lines 196-228, i counted from 0 as in the code.  Each run of ffmpeg is
\* logged twice: "split_ffmpeg" with the -ss argument, "split_ffmpeg_t" with
\* the -t argument.  An ffmpeg that exits with 0 has written its output
\* file, so the test of line 222 holds.
RECURSIVE SplitLoop(_, _, _, _, _, _, _)
SplitLoop(w, i, paths, p, total_duration, chunk_duration_seconds, so) ==
    LET chunk_count == (total_duration \div chunk_duration_seconds) + 1
        start_time == i * chunk_duration_seconds
        chunk_path == ChunkPath(p, i + 1)
        size == IF start_time + chunk_duration_seconds > total_duration
                THEN so.last_size ELSE FullChunkBytes
    IN  IF i >= chunk_count \/ start_time >= total_duration
        THEN [w |-> w, ret |-> Return(paths)]
        ELSE IF so.fail_at = i + 1
        THEN [w |-> Log(Log(w, Event("split_ffmpeg", chunk_path, "error", start_time)),
                        Event("split_ffmpeg_t", chunk_path, "error",
                              chunk_duration_seconds)),
              ret |-> Return(<<p>>)]
        ELSE SplitLoop(Log(Log([w EXCEPT !.files = WriteFile(@, chunk_path, size)],
                               Event("split_ffmpeg", chunk_path, "ok", start_time)),
                           Event("split_ffmpeg_t", chunk_path, "ok",
                                 chunk_duration_seconds)),
                       i + 1, Append(paths, chunk_path), p, total_duration,
                       chunk_duration_seconds, so)

SplitAudioForProcessing(w, p, chunk_duration_minutes, so) ==
    LET w1 == Log(w, Event("ffprobe", p, so.probe, 0)) IN
    IF so.probe # "ok"
    THEN [w |-> w1, ret |-> Return(<<p>>)]
    ELSE SplitLoop(w1, 0, <<>>, p, so.total_duration, chunk_duration_minutes * 60, so)

\* lines 237-245: the temporary directory holds the download, the compressed
\* copy and the chunks
ExtractorCleanup(fs) == [q \in DOMAIN fs |-> NoFile]

----------------------------------------------------------------------------
(* Transcriber *)

\* CheckAudioFile without the test of the size
CheckAudioFileExistsOnly(fs, p) ==
    IF ~Exists(fs, p) THEN Raise("TranscriptionError", MsgNotFound)
    ELSE Return(TRUE)

CheckAudioFile(fs, p) ==
    IF ~Exists(fs, p) THEN Raise("TranscriptionError", MsgNotFound)
    ELSE IF GetSize(fs, p) < MIN_SIZE THEN Raise("TranscriptionError", MsgTooSmall)
    ELSE Return(TRUE)

\* The request itself (lines 93-116): everything inside the try is turned
\* into a TranscriptionError.
ApiRequest(w, p, o) ==
    LET w1 == Log(w, Event("api_request", p, "whisper-1", GetSize(w.files, p)))
    IN  IF o.api = "ok"
        THEN [w |-> w1, ret |-> Return([text |-> o.api_text, segments |-> <<>>,
                                        language |-> "en"])]
        ELSE [w |-> w1, ret |-> Raise("TranscriptionError", MsgApiFailed)]

\* ApiAfterCompression without the size check on what the compressor returned
ApiAfterCompressionNoRecheck(c, o) ==
    IF ~c.ret.ok THEN c
    ELSE ApiRequest(c.w, c.ret.result, o)

\* ApiAfterCompression rejecting a compressed file of exactly the ceiling
ApiAfterCompressionStrictCeiling(c, o) ==
    IF ~c.ret.ok THEN c
    ELSE IF GetSize(c.w.files, c.ret.result) >= MAX_SIZE
    THEN [w |-> c.w, ret |-> Raise("TranscriptionError", MsgTooLargeAfterCompression)]
    ELSE ApiRequest(c.w, c.ret.result, o)

\* lines 80-89 and on: c is what compress_audio_for_api did; an exception of
\* the compressor propagates, its return value replaces audio_path and is
\* measured again
ApiAfterCompression(c, o) ==
    IF ~c.ret.ok THEN c
    ELSE IF GetSize(c.w.files, c.ret.result) > MAX_SIZE
    THEN [w |-> c.w, ret |-> Raise("TranscriptionError", MsgTooLargeAfterCompression)]
    ELSE ApiRequest(c.w, c.ret.result, o)

TranscribeWithApi(w, p, o) ==
    LET w1 == Log(w, Event("transcribe_with_api", p, "", 0))
        chk == CheckAudioFile(w.files, p)
    IN  IF ~OPENAI_AVAILABLE
        THEN [w |-> w1, ret |-> Raise("TranscriptionError", MsgOpenAIUnavailable)]
        ELSE IF ~api_key
        THEN [w |-> w1, ret |-> Raise("TranscriptionError", MsgNoApiKey)]
        ELSE IF ~chk.ok
        THEN [w |-> w1, ret |-> chk]
        ELSE IF GetSize(w.files, p) > MAX_SIZE
        THEN IF audio_extractor
             THEN ApiAfterCompression(CompressAudioForApi(w1, p, o), o)
             ELSE [w |-> w1, ret |-> Raise("TranscriptionError", MsgTooLarge)]
        ELSE ApiRequest(w1, p, o)

\* ProcessSegments keeping the segments whose stripped text is empty
RECURSIVE ProcessSegmentsKeepsBlank(_)
ProcessSegmentsKeepsBlank(segs) ==
    IF segs = <<>> THEN <<>>
    ELSE <<[start |-> Head(segs).start, end |-> Head(segs).end,
            text |-> Strip(Head(segs).text), words |-> <<>>]>>
         \o ProcessSegmentsKeepsBlank(Tail(segs))

\* lines 158-170: keep the segments whose stripped text is non-empty
RECURSIVE ProcessSegments(_)
ProcessSegments(segs) ==
    IF segs = <<>> THEN <<>>
    ELSE LET segment == Head(segs)
             segment_text == Strip(segment.text)
         IN  IF segment_text # <<>>
             THEN <<[start |-> segment.start, end |-> segment.end,
                     text |-> segment_text, words |-> <<>>]>>
                  \o ProcessSegments(Tail(segs))
             ELSE ProcessSegments(Tail(segs))

Texts(segs) == [i \in 1..Len(segs) |-> segs[i].text]

\* o.local: "ok", "load_error" (WhisperModel(...) raises), "run_error"
\* (the recognition raises); o.segments and o.duration are what the
\* recognizer yields.
TranscribeWithLocal(w, p, model_size, o) ==
    LET w1 == Log(w, Event("transcribe_with_local", p, model_size, 0))
        chk == CheckAudioFile(w.files, p)
        load == w.local_model = "None" \/ w.local_model # model_size
    IN  IF ~FASTER_WHISPER_AVAILABLE
        THEN [w |-> w1, ret |-> Raise("TranscriptionError", MsgFwUnavailable)]
        ELSE IF ~chk.ok
        THEN [w |-> w1, ret |-> chk]
        ELSE IF load /\ o.local = "load_error"
        THEN [w |-> w1, ret |-> Raise("TranscriptionError", MsgLocalFailed)]
        ELSE LET w2 == [w1 EXCEPT !.local_model = model_size]
                 w3 == Log(w2, Event("local_model.transcribe", p, model_size, 0))
                 result_segments == ProcessSegments(o.segments)
             IN  IF o.local = "run_error"
                 THEN [w |-> w3, ret |-> Raise("TranscriptionError", MsgLocalFailed)]
                 ELSE [w |-> w3,
                       ret |-> Return([text |-> Join(Texts(result_segments)),
                                       segments |-> result_segments,
                                       language |-> "en",
                                       duration |-> o.duration])]

\* lines 212-217
Dispatch(w, p, backend, model_size, o) ==
    IF backend = "api" THEN TranscribeWithApi(w, p, o)
    ELSE IF backend = "local" THEN TranscribeWithLocal(w, p, model_size, o)
    ELSE [w |-> w, ret |-> Raise("TranscriptionError", MsgUnknownBackend)]

\* AutoFallback running the local backend also after the API succeeded
AutoFallbackAlwaysLocal(a, p, model_size, o) ==
    IF a.ret.ok \/ a.ret.exc = "TranscriptionError"
    THEN Dispatch(Log(a.w, Event("print_fallback", p, "", 0)),
                  p, "local", model_size, o)
    ELSE a

\* lines 204-208: a is what transcribe_with_api did under "auto"; only a
\* TranscriptionError is caught and answered by the local backend
AutoFallback(a, p, model_size, o) ==
    IF a.ret.ok THEN a
    ELSE IF a.ret.exc = "TranscriptionError"
    THEN Dispatch(Log(a.w, Event("print_fallback", p, a.ret.msg, 0)),
                  p, "local", model_size, o)
    ELSE a

\* Transcribe falling back to LOCAL also when the backend is "api"
TranscribeApiFallsBack(w, p, backend, model_size, o) ==
    IF backend \in {"auto", "api"}
    THEN IF api_key /\ OPENAI_AVAILABLE
         THEN AutoFallback(TranscribeWithApi(Log(w, Event("transcribe", p, backend, 0)),
                                             p, o),
                           p, model_size, o)
         ELSE Dispatch(Log(w, Event("transcribe", p, backend, 0)),
                       p, "local", model_size, o)
    ELSE Dispatch(Log(w, Event("transcribe", p, backend, 0)), p, backend, model_size, o)

\* Transcribe trying the API under "auto" without looking at the credential
TranscribeAutoIgnoresKey(w, p, backend, model_size, o) ==
    IF backend = "auto"
    THEN IF OPENAI_AVAILABLE
         THEN AutoFallback(TranscribeWithApi(Log(w, Event("transcribe", p, backend, 0)),
                                             p, o),
                           p, model_size, o)
         ELSE Dispatch(Log(w, Event("transcribe", p, backend, 0)),
                       p, "local", model_size, o)
    ELSE Dispatch(Log(w, Event("transcribe", p, backend, 0)), p, backend, model_size, o)

Transcribe(w, p, backend, model_size, o) ==
    IF backend = "auto"
    THEN IF api_key /\ OPENAI_AVAILABLE
         THEN AutoFallback(TranscribeWithApi(Log(w, Event("transcribe", p, backend, 0)),
                                             p, o),
                           p, model_size, o)
         ELSE Dispatch(Log(w, Event("transcribe", p, backend, 0)),
                       p, "local", model_size, o)
    ELSE Dispatch(Log(w, Event("transcribe", p, backend, 0)), p, backend, model_size, o)

\* AdjustSegments shifting only the start of each segment
AdjustSegmentsStartOnly(segs, chunk_duration_offset) ==
    [k \in 1..Len(segs) |->
        [start |-> segs[k].start + chunk_duration_offset,
         end |-> segs[k].end,
         text |-> segs[k].text,
         words |-> segs[k].words]]

\* lines 247-254: shift the segments of one chunk by the running offset
AdjustSegments(segs, chunk_duration_offset) ==
    [k \in 1..Len(segs) |->
        [start |-> segs[k].start + chunk_duration_offset,
         end |-> segs[k].end + chunk_duration_offset,
         text |-> segs[k].text,
         words |-> segs[k].words]]

\* MergeChunk appending the text of a chunk also when it is empty
MergeChunkKeepsEmptyText(st, i, chunk_path, t) ==
    IF t.ret.ok
    THEN [w |-> Log(t.w, Event("chunk_completed", chunk_path, "", i)),
          combined_segments |->
              st.combined_segments
              \o AdjustSegments(t.ret.result.segments, st.chunk_duration_offset),
          combined_text_parts |-> Append(st.combined_text_parts, t.ret.result.text),
          chunk_duration_offset |->
              IF "duration" \in DOMAIN t.ret.result
              THEN st.chunk_duration_offset + t.ret.result.duration
              ELSE st.chunk_duration_offset + ESTIMATED_DURATION,
          total_duration |->
              IF "duration" \in DOMAIN t.ret.result
              THEN st.total_duration + t.ret.result.duration
              ELSE st.total_duration + ESTIMATED_DURATION,
          rets |-> Append(st.rets, t.ret)]
    ELSE [st EXCEPT !.w = Log(t.w, Event("warning", chunk_path, t.ret.msg, i)),
                    !.rets = Append(@, t.ret)]

\* MergeChunk putting the segments of a chunk before those of earlier chunks
MergeChunkPrepends(st, i, chunk_path, t) ==
    IF t.ret.ok
    THEN [w |-> Log(t.w, Event("chunk_completed", chunk_path, "", i)),
          combined_segments |->
              AdjustSegments(t.ret.result.segments, st.chunk_duration_offset)
              \o st.combined_segments,
          combined_text_parts |->
              IF t.ret.result.text # <<>>
              THEN Append(st.combined_text_parts, t.ret.result.text)
              ELSE st.combined_text_parts,
          chunk_duration_offset |->
              IF "duration" \in DOMAIN t.ret.result
              THEN st.chunk_duration_offset + t.ret.result.duration
              ELSE st.chunk_duration_offset + ESTIMATED_DURATION,
          total_duration |->
              IF "duration" \in DOMAIN t.ret.result
              THEN st.total_duration + t.ret.result.duration
              ELSE st.total_duration + ESTIMATED_DURATION,
          rets |-> Append(st.rets, t.ret)]
    ELSE [st EXCEPT !.w = Log(t.w, Event("warning", chunk_path, t.ret.msg, i)),
                    !.rets = Append(@, t.ret)]

\* MergeChunk adding nothing to the total for a chunk that reports no duration
MergeChunkNoDefault(st, i, chunk_path, t) ==
    IF t.ret.ok
    THEN [w |-> Log(t.w, Event("chunk_completed", chunk_path, "", i)),
          combined_segments |->
              st.combined_segments
              \o AdjustSegments(t.ret.result.segments, st.chunk_duration_offset),
          combined_text_parts |->
              IF t.ret.result.text # <<>>
              THEN Append(st.combined_text_parts, t.ret.result.text)
              ELSE st.combined_text_parts,
          chunk_duration_offset |->
              IF "duration" \in DOMAIN t.ret.result
              THEN st.chunk_duration_offset + t.ret.result.duration
              ELSE st.chunk_duration_offset + ESTIMATED_DURATION,
          total_duration |->
              IF "duration" \in DOMAIN t.ret.result
              THEN st.total_duration + t.ret.result.duration
              ELSE st.total_duration,
          rets |-> Append(st.rets, t.ret)]
    ELSE [st EXCEPT !.w = Log(t.w, Event("warning", chunk_path, t.ret.msg, i)),
                    !.rets = Append(@, t.ret)]

\* lines 245-274: t is what self.transcribe did for chunk number i (counted
\* from 1).  st holds the loop's local variables and the world; rets records
\* what self.transcribe returned or raised.
MergeChunk(st, i, chunk_path, t) ==
    IF t.ret.ok
    THEN [w |-> Log(t.w, Event("chunk_completed", chunk_path, "", i)),
          combined_segments |->
              st.combined_segments
              \o AdjustSegments(t.ret.result.segments, st.chunk_duration_offset),
          combined_text_parts |->
              IF t.ret.result.text # <<>>
              THEN Append(st.combined_text_parts, t.ret.result.text)
              ELSE st.combined_text_parts,
          chunk_duration_offset |->
              IF "duration" \in DOMAIN t.ret.result
              THEN st.chunk_duration_offset + t.ret.result.duration
              ELSE st.chunk_duration_offset + ESTIMATED_DURATION,
          total_duration |->
              IF "duration" \in DOMAIN t.ret.result
              THEN st.total_duration + t.ret.result.duration
              ELSE st.total_duration + ESTIMATED_DURATION,
          rets |-> Append(st.rets, t.ret)]
    ELSE [st EXCEPT !.w = Log(t.w, Event("warning", chunk_path, t.ret.msg, i)),
                    !.rets = Append(@, t.ret)]

\* One iteration of the loop of transcribe_chunked_audio (lines 238-274)
ChunkIteration(st, i, chunk_path, backend, model_size, o) ==
    MergeChunk(st, i, chunk_path, Transcribe(st.w, chunk_path, backend, model_size, o))

\* ChunkLoop giving up at the first chunk that fails
RECURSIVE ChunkLoopStopsAtFailure(_, _, _, _, _, _)
ChunkLoopStopsAtFailure(st, i, chunk_paths, backend, model_size, oracles) ==
    IF i > Len(chunk_paths) \/ (st.rets # <<>> /\ ~st.rets[Len(st.rets)].ok) THEN st
    ELSE ChunkLoopStopsAtFailure(
             ChunkIteration(st, i, chunk_paths[i], backend, model_size, oracles[i]),
             i + 1, chunk_paths, backend, model_size, oracles)

RECURSIVE ChunkLoop(_, _, _, _, _, _)
ChunkLoop(st, i, chunk_paths, backend, model_size, oracles) ==
    IF i > Len(chunk_paths) THEN st
    ELSE ChunkLoop(ChunkIteration(st, i, chunk_paths[i], backend, model_size, oracles[i]),
                   i + 1, chunk_paths, backend, model_size, oracles)

\* lines 276-288: st is the state of the loop at its end
CombinedResult(st, chunk_paths) ==
    [w |-> st.w,
     rets |-> st.rets,
     ret |-> Return([text |-> Join(st.combined_text_parts),
                     segments |-> st.combined_segments,
                     language |-> "en",
                     duration |-> st.total_duration,
                     chunk_count |-> Len(chunk_paths)])]

\* oracles[i] is the environment during the transcription of chunk i
TranscribeChunkedAudio(w, chunk_paths, backend, model_size, oracles) ==
    CombinedResult(
        ChunkLoop([w |-> Log(w, Event("transcribe_chunked_audio", NoPath, backend,
                                      Len(chunk_paths))),
                   combined_segments |-> <<>>,
                   combined_text_parts |-> <<>>,
                   total_duration |-> 0,
                   chunk_duration_offset |-> 0,
                   rets |-> <<>>],
                  1, chunk_paths, backend, model_size, oracles),
        chunk_paths)

----------------------------------------------------------------------------
(* Inputs *)

Backends == {"api", "local", "auto"}
ModelSizes == {"tiny", "base"}

RawSegment(start, end, text) == [start |-> start, end |-> end, text |-> text]

\* what the recognizer may yield for one file
NoSegments == <<>>
OneSegment == <<RawSegment(0, 4, <<" ", "a", " ">>)>>
ThreeSegments == <<RawSegment(0, 2, <<"a">>),
                   RawSegment(2, 3, <<" ">>),
                   RawSegment(3, 7, <<"b", " ", "c", " ">>)>>

\* segments that are all blank
BlankSegments == <<RawSegment(0, 1, <<" ">>), RawSegment(1, 2, <<" ", " ">>)>>

\* a segment whose end the recognizer puts before its start
BackwardSegment == <<RawSegment(4, 3, <<"a">>)>>

LocalOutcome(local, segments, duration) ==
    [local |-> local, segments |-> segments, duration |-> duration]
LocalOk == {LocalOutcome("ok", NoSegments, 5),
            LocalOutcome("ok", OneSegment, 5),
            LocalOutcome("ok", BackwardSegment, 5),
            LocalOutcome("ok", BlankSegments, 5),
            LocalOutcome("ok", ThreeSegments, 7),
            LocalOutcome("ok", OneSegment, ESTIMATED_DURATION)}
LocalErrors == {LocalOutcome("load_error", NoSegments, 0),
                LocalOutcome("run_error", NoSegments, 0)}
LocalOutcomes == LocalOk \cup LocalErrors

ApiOutcome(api, text) == [api |-> api, api_text |-> text]
ApiOutcomes == {ApiOutcome("ok", <<"h", "i">>), ApiOutcome("ok", <<>>),
                ApiOutcome("error", <<>>)}

FfmpegOutcome(ffmpeg, new_size) == [ffmpeg |-> ffmpeg, new_size |-> new_size]
FfmpegOutcomes == {FfmpegOutcome("ok", MAX_SIZE), FfmpegOutcome("ok", MAX_SIZE + 1),
                   FfmpegOutcome("CalledProcessError", 0), FfmpegOutcome("OSError", 0)}

Oracle(f, a, l) ==
    [ffmpeg |-> f.ffmpeg, new_size |-> f.new_size, api |-> a.api, api_text |-> a.api_text,
     local |-> l.local, segments |-> l.segments, duration |-> l.duration]
Oracles == {Oracle(f, a, l) : f \in FfmpegOutcomes, a \in ApiOutcomes, l \in LocalOutcomes}

AudioSizes == {NoFile, MIN_SIZE - 1, MIN_SIZE, MAX_SIZE, MAX_SIZE + 1}

World == [files |-> files, local_model |-> local_model, events |-> <<>>]
NoCall == [op |-> "none"]
\* no output file has been written
NoOutput == <<>>

\* nothing typed, no output directory, no invocation of create_output_directory
EnvIdle ==
    /\ stdin = <<>>
    /\ dirs = {}
    /\ runs = <<>>
NoRet == [ok |-> FALSE, exc |-> "", msg |-> ""]
NoResult == [text |-> <<>>, segments |-> <<>>]
NoArgs == [backend |-> "", model_size |-> ""]

MainIdle ==
    /\ mpc = "off"
    /\ args = NoArgs
    /\ audio_path = NoPath
    /\ output_dir = FALSE
    /\ split_paths = <<>>
    /\ chunked = FALSE
    /\ transcription_result = NoResult
    /\ saved_files = {}
    /\ exit_code = -1

----------------------------------------------------------------------------
(* Specification Spec: one call of Transcriber.transcribe on a constructed  *)
(* Transcriber                                                              *)

Init ==
    /\ api_key \in BOOLEAN
    /\ OPENAI_AVAILABLE \in BOOLEAN
    /\ FASTER_WHISPER_AVAILABLE \in BOOLEAN
    /\ audio_extractor \in BOOLEAN
    /\ \E size \in AudioSizes :
          files = [q \in {AudioPath, CompressedPath(AudioPath)} |->
                      IF q = AudioPath THEN size ELSE NoFile]
    /\ local_model \in {"None"} \cup ModelSizes
    /\ events = <<>>
    /\ output_files = NoOutput
    /\ EnvIdle
    /\ pc = "idle"
    /\ call = NoCall
    /\ ret = NoRet
    /\ chunk_rets = <<>>
    /\ MainIdle

\* the caller sees what the operation did: r.w is the world afterwards, r.ret
\* the value returned or the exception raised
Returns(r) ==
    /\ files' = r.w.files
    /\ local_model' = r.w.local_model
    /\ events' = r.w.events
    /\ ret' = r.ret

TranscribeCall ==
    /\ pc = "idle"
    /\ \E backend \in Backends \cup {"other"}, model_size \in ModelSizes, o \in Oracles :
          /\ call' = [op |-> "transcribe", audio_path |-> AudioPath, backend |-> backend,
                      model_size |-> model_size, oracle |-> o, files |-> files,
                      local_model |-> local_model]
          /\ Returns(Transcribe(World, AudioPath, backend, model_size, o))
    /\ pc' = "returned"
    /\ UNCHANGED <<envvars, output_files, config, chunk_rets, mainvars>>

Next == TranscribeCall

Spec == Init /\ [][Next]_vars

----------------------------------------------------------------------------
(* Properties of Transcriber.transcribe (specification Spec) *)

Returned(op) == pc = "returned" /\ call.op = op

\* the world in which the last call started
Pre == [files |-> call.files, local_model |-> call.local_model, events |-> <<>>]

EventsOf(ev) == {i \in 1..Len(events) : events[i].ev = ev}
HasEvent(ev) == EventsOf(ev) # {}

\* what the API path alone, and the LOCAL path alone, do on the call's inputs
ApiPath == TranscribeWithApi(Pre, call.audio_path, call.oracle)
LocalPath == TranscribeWithLocal(Pre, call.audio_path, call.model_size, call.oracle)

\* LOCAL was run on the original path with the requested model size
LocalInvokedAsRequested ==
    \E i \in EventsOf("transcribe_with_local") :
        events[i].path = call.audio_path /\ events[i].arg = call.model_size

\* C1: under backend "auto" with a credential, whenever the API path fails and
\* LOCAL succeeds on the same path and model size, transcribe returns the LOCAL
\* result and does not raise.
C1_AutoFallsBackOnAnyApiFailure ==
    (Returned("transcribe") /\ call.backend = "auto" /\ api_key
        /\ ~ApiPath.ret.ok /\ LocalPath.ret.ok)
    => (ret = LocalPath.ret /\ LocalInvokedAsRequested)

\* C2: under backend "api" the outcome of transcribe is the outcome of the API
\* path, failures included, and the LOCAL backend is not invoked.
C2_ApiFailureIsRaised ==
    (Returned("transcribe") /\ call.backend = "api")
    => (ret = ApiPath.ret /\ ~HasEvent("transcribe_with_local"))

C2_Witness ==
    /\ Returned("transcribe") /\ call.backend = "api"
    /\ ~ret.ok /\ ret.msg = MsgApiFailed
    /\ FASTER_WHISPER_AVAILABLE /\ call.oracle.local = "ok"

\* C4: under backend "auto" without a credential the API path is not entered,
\* and the return value, the files, the loaded model and the backend calls are
\* those of the same call with backend "local".
C4_AutoWithoutCredentialIsLocal ==
    (Returned("transcribe") /\ call.backend = "auto" /\ ~api_key)
    => LET l == Transcribe(Pre, call.audio_path, "local", call.model_size, call.oracle)
       IN  /\ ~HasEvent("transcribe_with_api")
           /\ ~HasEvent("api_request")
           /\ ~HasEvent("print_fallback")
           /\ ret = l.ret
           /\ files = l.w.files
           /\ local_model = l.w.local_model
           /\ Tail(events) = Tail(l.w.events)

C4_Witness ==
    /\ Returned("transcribe") /\ call.backend = "auto" /\ ~api_key
    /\ OPENAI_AVAILABLE /\ ret.ok /\ ret.result.segments # <<>>

\* C5: every request to the remote service is for a file of at most the
\* 25 MB ceiling.
C5_RequestWithinCeiling ==
    \A i \in EventsOf("api_request") : events[i].n <= 25 * 1024 * 1024

C5_Witness ==
    /\ Returned("transcribe")
    /\ call.files[call.audio_path] > MAX_SIZE
    /\ \E i \in EventsOf("api_request") :
          events[i].path = CompressedPath(call.audio_path)

\* the size-limit errors, both of which tell the user to use --backend local
SizeLimitMessages == {MsgTooLargeAfterCompression, MsgTooLarge}

C6_Body ==
    /\ Cardinality(EventsOf("compress_audio_for_api")) = 1
    /\ (call.oracle.ffmpeg = "ok" /\ call.oracle.new_size <= MAX_SIZE)
          => \E i \in EventsOf("api_request") :
                events[i].path = CompressedPath(call.audio_path)
    /\ (call.oracle.ffmpeg = "ok" /\ call.oracle.new_size > MAX_SIZE)
          => (~ret.ok /\ ret.exc = "TranscriptionError"
              /\ ret.msg \in SizeLimitMessages /\ ~HasEvent("api_request"))

\* C6 as stated: with backend "api" and an asset over the ceiling the
\* compressor is invoked exactly once, a re-encoded output within the ceiling
\* is sent to the API, and one over the ceiling makes transcribe raise the
\* size-limit error that points to the local backend, with no request made.
C6_CompressorAlwaysInvoked ==
    (Returned("transcribe") /\ call.backend = "api"
        /\ call.files[call.audio_path] > MAX_SIZE)
    => C6_Body

\* C6 as amended: the same, when the OpenAI library is available, a credential
\* is configured and a compressor is attached to the Transcriber.
C6_CompressorInvokedWhenApiUsable ==
    (Returned("transcribe") /\ call.backend = "api"
        /\ call.files[call.audio_path] > MAX_SIZE
        /\ OPENAI_AVAILABLE /\ api_key /\ audio_extractor)
    => C6_Body

C6_Witness ==
    /\ Returned("transcribe") /\ call.backend = "api"
    /\ call.files[call.audio_path] > MAX_SIZE
    /\ call.oracle.ffmpeg = "ok" /\ call.oracle.new_size > MAX_SIZE
    /\ ~ret.ok /\ ret.msg = MsgTooLargeAfterCompression

\* C20: every segment of a result that transcribe returns has start <= end;
\* a segment that the recognizer yields with start > end is not in the result.
C20_SegmentsStartBeforeEnd ==
    (Returned("transcribe") /\ ret.ok)
    => \A k \in 1..Len(ret.result.segments) :
          ret.result.segments[k].start <= ret.result.segments[k].end

NonBlank(segment) == Strip(segment.text) # <<>>

\* the recognizer's segments whose trimmed text is not empty, in its order
Kept == SelectSeq(call.oracle.segments, NonBlank)
KeptTexts == [k \in 1..Len(Kept) |-> Strip(Kept[k].text)]

\* the local backend can run: the library is there, the file passes the
\* check, the model loads and the recognizer finishes
LocalRuns ==
    /\ FASTER_WHISPER_AVAILABLE
    /\ CheckAudioFile(call.files, call.audio_path).ok
    /\ call.oracle.local = "ok"

\* C21: the segments of a result of the local backend are the recognizer's
\* segments with non-empty trimmed text, in the recognizer's order, with
\* their times and their trimmed text; the text is the single-space join of
\* those texts; when every segment trims to empty the call succeeds with an
\* empty text and no segments.
C21_LocalKeepsNonBlankSegments ==
    (Returned("transcribe") /\ call.backend = "local")
    => /\ ret.ok
          => /\ Len(ret.result.segments) = Len(Kept)
             /\ \A k \in 1..Len(Kept) :
                   /\ ret.result.segments[k].start = Kept[k].start
                   /\ ret.result.segments[k].end = Kept[k].end
                   /\ ret.result.segments[k].text = KeptTexts[k]
             /\ ret.result.text = Join(KeptTexts)
       /\ (LocalRuns /\ Kept = <<>>)
          => /\ ret.ok
             /\ ret.result.text = <<>>
             /\ ret.result.segments = <<>>

C21_Witness ==
    /\ Returned("transcribe") /\ call.backend = "local" /\ ret.ok
    /\ call.oracle.segments = ThreeSegments
    /\ Len(ret.result.segments) = 2
    /\ ret.result.text = <<"a", " ", "b", " ", "c">>

BadAsset ==
    \/ ~Exists(call.files, call.audio_path)
    \/ GetSize(call.files, call.audio_path) < MIN_SIZE

\* C22: when the file does not exist or is smaller than the minimum size,
\* transcribe raises under each of the backends api, local and auto, and the
\* compressor, the remote service and the recognizer are not run; no model
\* is loaded.
C22_BadAssetFailsFast ==
    (Returned("transcribe") /\ call.backend \in Backends /\ BadAsset)
    => /\ ~ret.ok
       /\ ~HasEvent("compress_audio_for_api")
       /\ ~HasEvent("ffmpeg")
       /\ ~HasEvent("api_request")
       /\ ~HasEvent("local_model.transcribe")
       /\ local_model = call.local_model
       /\ files = call.files

C22_Witness ==
    /\ Returned("transcribe") /\ call.backend = "auto"
    /\ api_key /\ OPENAI_AVAILABLE /\ FASTER_WHISPER_AVAILABLE
    /\ GetSize(call.files, call.audio_path) = MIN_SIZE - 1
    /\ HasEvent("transcribe_with_api") /\ HasEvent("transcribe_with_local")
    /\ ~ret.ok /\ ret.msg = MsgTooSmall

\* C27: in one call of transcribe under "auto" the API backend is attempted
\* at most once and the local backend at most once; with a credential the
\* local backend is not attempted before the API backend; when the API
\* attempt succeeds the local backend is not attempted and the API result,
\* with no segments, is returned.
C27_AutoAttemptsEachBackendOnce ==
    (Returned("transcribe") /\ call.backend = "auto")
    => /\ Cardinality(EventsOf("transcribe_with_api")) <= 1
       /\ Cardinality(EventsOf("api_request")) <= 1
       /\ Cardinality(EventsOf("transcribe_with_local")) <= 1
       /\ Cardinality(EventsOf("local_model.transcribe")) <= 1
       /\ api_key => \A i \in EventsOf("transcribe_with_local") :
                        \A j \in EventsOf("transcribe_with_api") : j < i
       /\ (HasEvent("transcribe_with_api") /\ ApiPath.ret.ok)
          => /\ ~HasEvent("transcribe_with_local")
             /\ ret = ApiPath.ret
             /\ ret.result.segments = <<>>

C27_Witness ==
    /\ Returned("transcribe") /\ call.backend = "auto" /\ api_key
    /\ HasEvent("api_request") /\ ~ApiPath.ret.ok
    /\ HasEvent("local_model.transcribe") /\ ret.ok
    /\ ret.result.segments # <<>>

----------------------------------------------------------------------------
(* Specification SpecChunked: one call of transcribe_chunked_audio *)

FfmpegOk == FfmpegOutcome("ok", MAX_SIZE)
FfmpegNotStarted == FfmpegOutcome("OSError", 0)
ApiOk == ApiOutcome("ok", <<"h", "i">>)
ApiError == ApiOutcome("error", <<>>)
LocalOne == LocalOutcome("ok", OneSegment, 5)
ChunkLocal == {LocalOutcome("ok", NoSegments, 5), LocalOne,
               LocalOutcome("ok", ThreeSegments, 7),
               LocalOutcome("run_error", NoSegments, 0)}

\* the environments of one chunk that make a difference under each backend
ChunkOracles(backend) ==
    CASE backend = "local" -> {Oracle(FfmpegOk, ApiOk, l) : l \in ChunkLocal}
      [] backend = "api" -> {Oracle(FfmpegOk, ApiOk, LocalOne),
                             Oracle(FfmpegOk, ApiError, LocalOne),
                             Oracle(FfmpegNotStarted, ApiOk, LocalOne)}
      [] OTHER -> {Oracle(FfmpegOk, ApiOk, LocalOne),
                   Oracle(FfmpegNotStarted, ApiOk, LocalOne)}
                  \cup {Oracle(FfmpegOk, ApiError, l) : l \in ChunkLocal}

\* a segment that starts after the end the recognizer reports for the file
LateSegment == <<RawSegment(6, 8, <<"a">>)>>
ChunkLocalLate == LocalOutcome("ok", LateSegment, 5)

\* for a direct call, also a recognizer whose times exceed its duration
UnitChunkOracles(backend) ==
    IF backend = "api" THEN ChunkOracles(backend)
    ELSE ChunkOracles(backend) \cup {Oracle(FfmpegOk, ApiError, ChunkLocalLate)}

ChunkPaths(n) == [i \in 1..n |-> ChunkPath(AudioPath, i)]

\* sizes of the chunk files: all plausible, the first over the API ceiling, or
\* the second too small to be audio
ChunkProfiles == {"plain", "first_large", "second_tiny"}
ChunkFileSize(profile, i) ==
    IF profile = "first_large" /\ i = 1 THEN MAX_SIZE + 1
    ELSE IF profile = "second_tiny" /\ i = 2 THEN MIN_SIZE - 1
    ELSE MIN_SIZE

InitChunked ==
    /\ api_key \in BOOLEAN
    /\ OPENAI_AVAILABLE \in BOOLEAN
    /\ FASTER_WHISPER_AVAILABLE \in BOOLEAN
    /\ audio_extractor \in BOOLEAN
    /\ \E profile \in ChunkProfiles :
          files = [q \in {ChunkPath(AudioPath, i) : i \in 1..MaxChunks}
                         \cup {CompressedPath(ChunkPath(AudioPath, i)) : i \in 1..MaxChunks}
                   |-> IF q.compressed = 0 THEN ChunkFileSize(profile, q.chunk) ELSE NoFile]
    /\ local_model = "None"
    /\ events = <<>>
    /\ output_files = NoOutput
    /\ EnvIdle
    /\ pc = "idle"
    /\ call = NoCall
    /\ ret = NoRet
    /\ chunk_rets = <<>>
    /\ MainIdle

ChunkedReturns(r) ==
    /\ Returns(r)
    /\ chunk_rets' = r.rets

TranscribeChunkedCall ==
    /\ pc = "idle"
    /\ \E backend \in Backends, model_size \in ModelSizes, n \in 0..MaxChunks :
       \E oracles \in [1..n -> UnitChunkOracles(backend)] :
          /\ call' = [op |-> "transcribe_chunked_audio", chunk_paths |-> ChunkPaths(n),
                      backend |-> backend, model_size |-> model_size,
                      oracles |-> oracles, files |-> files, local_model |-> local_model]
          /\ ChunkedReturns(TranscribeChunkedAudio(World, ChunkPaths(n), backend,
                                                   model_size, oracles))
    /\ pc' = "returned"
    /\ UNCHANGED <<envvars, output_files, config, mainvars>>

NextChunked == TranscribeChunkedCall

SpecChunked == InitChunked /\ [][NextChunked]_vars

----------------------------------------------------------------------------
(* Properties of transcribe_chunked_audio (specification SpecChunked) *)

NChunks == Len(call.chunk_paths)
Succeeded(k) == chunk_rets[k].ok
Reports(k) == Succeeded(k) /\ "duration" \in DOMAIN chunk_rets[k].result
ChunkSegments(k) == IF Succeeded(k) THEN chunk_rets[k].result.segments ELSE <<>>

\* number of segments that the chunks before chunk k returned
RECURSIVE SegmentsBefore(_)
SegmentsBefore(k) ==
    IF k <= 1 THEN 0 ELSE SegmentsBefore(k - 1) + Len(ChunkSegments(k - 1))

\* d_1 + ... + d_(k-1), the durations the chunks before chunk k reported
RECURSIVE ReportedBefore(_)
ReportedBefore(k) ==
    IF k <= 1 THEN 0 ELSE ReportedBefore(k - 1) + chunk_rets[k - 1].result.duration

\* the duration of chunk j: the one it reported, else the assumed default
DurationOrDefault(j) ==
    IF Reports(j) THEN chunk_rets[j].result.duration ELSE ESTIMATED_DURATION

RECURSIVE DurationBefore(_)
DurationBefore(k) ==
    IF k <= 1 THEN 0 ELSE DurationBefore(k - 1) + DurationOrDefault(k - 1)

\* segment m of chunk k is in the combined list, shifted by offset
ShiftedBy(k, m, offset) ==
    LET s == ChunkSegments(k)[m]
        c == ret.result.segments[SegmentsBefore(k) + m]
    IN  /\ SegmentsBefore(k) + m <= Len(ret.result.segments)
        /\ c.start = s.start + offset
        /\ c.end = s.end + offset
        /\ c.text = s.text

\* C7: when every chunk succeeds and reports its duration, every segment of
\* chunk k is in the combined result with start and end increased by the sum
\* of the durations of chunks 1..k-1 and its text unchanged.
C7_SegmentsShiftedByPriorDurations ==
    (Returned("transcribe_chunked_audio") /\ \A k \in 1..NChunks : Reports(k))
    => \A k \in 1..NChunks : \A m \in 1..Len(ChunkSegments(k)) :
          ShiftedBy(k, m, ReportedBefore(k))

C7_Witness ==
    /\ Returned("transcribe_chunked_audio") /\ NChunks = 3
    /\ \A k \in 1..NChunks : Reports(k)
    /\ Len(ChunkSegments(1)) = 2 /\ chunk_rets[1].result.duration = 7
    /\ Len(ChunkSegments(2)) = 1 /\ chunk_rets[2].result.duration = 5
    /\ Len(ChunkSegments(3)) = 2
    /\ ret.result.segments[5].start = 3 + 12 /\ ret.result.segments[5].end = 7 + 12

\* C8: the offset added to the timestamps of chunk k is the cumulative
\* duration, reported or else the assumed default, of all chunks 1..k-1,
\* whether those succeeded or were skipped.
C8_OffsetCountsEveryPriorChunk ==
    Returned("transcribe_chunked_audio")
    => \A k \in 1..NChunks : \A m \in 1..Len(ChunkSegments(k)) :
          ShiftedBy(k, m, DurationBefore(k))

IsTranscribeEvent(e) == e.ev = "transcribe"
IsWarningEvent(e) == e.ev = "warning"
Attempts == SelectSeq(events, IsTranscribeEvent)
Warnings == SelectSeq(events, IsWarningEvent)
FailedChunks == {k \in 1..NChunks : ~Succeeded(k)}

\* C9: every chunk is attempted exactly once, in list order; each failure is
\* logged as a warning naming the chunk; the call returns normally and every
\* chunk that succeeded, also after a failed one, has its segments in the
\* result.
C9_EveryChunkAttemptedOnce ==
    Returned("transcribe_chunked_audio")
    => /\ ret.ok
       /\ Len(chunk_rets) = NChunks
       /\ Len(Attempts) = NChunks
       /\ \A k \in 1..NChunks : Attempts[k].path = call.chunk_paths[k]
       /\ Len(Warnings) = Cardinality(FailedChunks)
       /\ \A k \in FailedChunks :
             \E i \in 1..Len(Warnings) :
                Warnings[i].n = k /\ Warnings[i].path = call.chunk_paths[k]
       /\ \A i, j \in 1..Len(Warnings) : i < j => Warnings[i].n < Warnings[j].n
       /\ Len(ret.result.segments) = SegmentsBefore(NChunks + 1)
       /\ \A k \in 1..NChunks : \A m \in 1..Len(ChunkSegments(k)) :
             ret.result.segments[SegmentsBefore(k) + m].text = ChunkSegments(k)[m].text

C9_Witness ==
    /\ Returned("transcribe_chunked_audio") /\ NChunks = 3
    /\ ~Succeeded(1) /\ chunk_rets[1].exc = "OSError"
    /\ ~Succeeded(2) /\ chunk_rets[2].exc = "TranscriptionError"
    /\ Succeeded(3) /\ Len(ChunkSegments(3)) = 2
    /\ Len(ret.result.segments) = 2

\* the texts of the chunks 1..k that succeeded with a non-empty text, in order
RECURSIVE TextsUpTo(_)
TextsUpTo(k) ==
    IF k = 0 THEN <<>>
    ELSE IF Succeeded(k) /\ chunk_rets[k].result.text # <<>>
         THEN Append(TextsUpTo(k - 1), chunk_rets[k].result.text)
         ELSE TextsUpTo(k - 1)

\* the place of segment m of chunk k in the combined list
Combined(k, m) == ret.result.segments[SegmentsBefore(k) + m]

\* C11: the combined text is the single-space join of the non-empty texts of
\* the chunks in chunk order; the combined segments are the segment lists of
\* the chunks one after the other in chunk order, each list in its own order
\* and shifted as a whole; a skipped chunk adds no text and no segment.
C11_MergeKeepsChunkOrder ==
    Returned("transcribe_chunked_audio")
    => /\ ret.result.text = Join(TextsUpTo(NChunks))
       /\ Len(ret.result.segments) = SegmentsBefore(NChunks + 1)
       /\ \A k \in 1..NChunks : \A m \in 1..Len(ChunkSegments(k)) :
             /\ Combined(k, m).text = ChunkSegments(k)[m].text
             /\ Combined(k, m).end - Combined(k, m).start
                   = ChunkSegments(k)[m].end - ChunkSegments(k)[m].start
             /\ Combined(k, m).start - ChunkSegments(k)[m].start
                   = Combined(k, 1).start - ChunkSegments(k)[1].start

C11_Witness ==
    /\ Returned("transcribe_chunked_audio") /\ NChunks = 3
    /\ Succeeded(1) /\ Len(ChunkSegments(1)) = 1
    /\ ~Succeeded(2)
    /\ Succeeded(3) /\ Len(ChunkSegments(3)) = 2
    /\ ret.result.text = <<"a", " ", "a", " ", "b", " ", "c">>
    /\ Len(ret.result.segments) = 3
    /\ ret.result.segments[3].text = <<"b", " ", "c">>

\* what chunk j adds to the total: the duration its result reports, the
\* assumed default when its result reports none, nothing when it has no result
DurationAdded(j) ==
    IF ~Succeeded(j) THEN 0
    ELSE IF Reports(j) THEN chunk_rets[j].result.duration
    ELSE CHUNK_MINUTES * 60

RECURSIVE DurationSum(_)
DurationSum(k) == IF k = 0 THEN 0 ELSE DurationSum(k - 1) + DurationAdded(k)

ChunkOrdered(k) ==
    \A m \in 1..(Len(ChunkSegments(k)) - 1) :
        ChunkSegments(k)[m].start <= ChunkSegments(k)[m + 1].start

\* every segment of chunk k starts within the duration that chunk k reports
StartsWithinDuration(k) ==
    \A m \in 1..Len(ChunkSegments(k)) :
        /\ Reports(k)
        /\ 0 <= ChunkSegments(k)[m].start
        /\ ChunkSegments(k)[m].start <= chunk_rets[k].result.duration

\* C26: when the segments of every chunk are ordered by start and start
\* within the duration the chunk reports, the combined list is ordered by
\* start (non-decreasing).
C26_CombinedSegmentsOrdered ==
    (Returned("transcribe_chunked_audio")
       /\ \A k \in 1..NChunks : ChunkOrdered(k) /\ StartsWithinDuration(k))
    => \A i \in 1..(Len(ret.result.segments) - 1) :
          ret.result.segments[i].start <= ret.result.segments[i + 1].start

C26_Witness ==
    /\ Returned("transcribe_chunked_audio") /\ NChunks = 3
    /\ \A k \in 1..NChunks : ChunkOrdered(k) /\ StartsWithinDuration(k)
    /\ Len(ChunkSegments(1)) = 2 /\ ~Succeeded(2) /\ Len(ChunkSegments(3)) = 2
    /\ ret.result.segments[2].start = 3 /\ ret.result.segments[3].start = 7

----------------------------------------------------------------------------
(* yt2transcript.main *)

\* lines 194-202: f is what the fallback transcribe(backend="local") did
FallbackOutcome(first, f) ==
    IF f.ret.ok
    THEN [w |-> f.w, first |-> first, outcome |-> "completed", result |-> f.ret.result]
    ELSE IF f.ret.exc = "TranscriptionError"
    THEN [w |-> f.w, first |-> first, outcome |-> "exit", result |-> NoResult]
    ELSE [w |-> f.w, first |-> first, outcome |-> "unexpected", result |-> NoResult]

\* MainHandler exiting for every backend
MainHandlerNoFallback(t, p, backend, model_size, o) ==
    IF t.ret.ok
    THEN [w |-> t.w, first |-> t.ret, outcome |-> "completed", result |-> t.ret.result]
    ELSE IF t.ret.exc = "TranscriptionError"
    THEN [w |-> t.w, first |-> t.ret, outcome |-> "exit", result |-> NoResult]
    ELSE [w |-> t.w, first |-> t.ret, outcome |-> "unexpected", result |-> NoResult]

\* lines 190-205: t is what transcriber.transcribe did.  outcome: "completed",
\* "exit" (sys.exit(1) in the handler) or "unexpected" (another exception,
\* caught at line 250).
MainHandler(t, p, backend, model_size, o) ==
    IF t.ret.ok
    THEN [w |-> t.w, first |-> t.ret, outcome |-> "completed", result |-> t.ret.result]
    ELSE IF t.ret.exc = "TranscriptionError"
    THEN IF backend = "api"
         THEN FallbackOutcome(
                  t.ret,
                  Transcribe(Log(t.w, Event("main_fallback", p, t.ret.msg, 0)),
                             p, "local", model_size, o))
         ELSE [w |-> t.w, first |-> t.ret, outcome |-> "exit", result |-> NoResult]
    ELSE [w |-> t.w, first |-> t.ret, outcome |-> "unexpected", result |-> NoResult]

\* lines 178-205: the non-chunked transcription and the handler of
\* TranscriptionError around it
MainTranscribeStage(w, p, backend, model_size, o) ==
    MainHandler(Transcribe(w, p, backend, model_size, o), p, backend, model_size, o)

DownloadSizes == {MIN_SIZE - 1, MIN_SIZE, MAX_SIZE + 1, CHUNKING_SIZE, CHUNKING_SIZE + 1}

SplitOracle(probe, total_duration, fail_at, last_size) ==
    [probe |-> probe, total_duration |-> total_duration, fail_at |-> fail_at,
     last_size |-> last_size]
SplitOracles ==
    {SplitOracle("error", 0, 0, MIN_SIZE)}
    \cup {SplitOracle("ok", k * 300, f, ls) :
            k \in 0..(2 * MaxChunks), f \in {0, 2}, ls \in {MIN_SIZE - 1, MIN_SIZE}}

Formats == {"txt", "srt", "vtt"}

MainWorld == [files |-> files, local_model |-> local_model, events |-> events]

InitMain ==
    /\ api_key \in BOOLEAN
    /\ OPENAI_AVAILABLE \in BOOLEAN
    /\ FASTER_WHISPER_AVAILABLE \in BOOLEAN
    /\ audio_extractor = FALSE
    /\ files = [q \in {AudioPath, CompressedPath(AudioPath)} |-> NoFile]
    /\ local_model = "None"
    /\ events = <<>>
    /\ output_files = NoOutput
    /\ EnvIdle
    /\ pc = "idle"
    /\ call = NoCall
    /\ ret = NoRet
    /\ chunk_rets = <<>>
    /\ mpc = "check_dependencies"
    /\ \E backend \in Backends, model_size \in ModelSizes :
          args = [backend |-> backend, model_size |-> model_size]
    /\ audio_path = NoPath
    /\ output_dir = FALSE
    /\ split_paths = <<>>
    /\ chunked = FALSE
    /\ transcription_result = NoResult
    /\ saved_files = {}
    /\ exit_code = -1

\* lines 130-133: sys.exit(1) before anything is constructed
MainCheckDependencies ==
    /\ mpc = "check_dependencies"
    /\ \E ffmpeg_found \in BOOLEAN :
          IF ffmpeg_found
          THEN mpc' = "init" /\ UNCHANGED exit_code
          ELSE mpc' = "exited" /\ exit_code' = 1
    /\ UNCHANGED <<envvars, output_files,
                   config, files, local_model, events, pc, call, ret, chunk_rets, args,
                   audio_path, output_dir, split_paths, chunked, transcription_result,
                   saved_files>>

\* lines 135-139
MainInitComponents ==
    /\ mpc = "init"
    /\ audio_extractor' = TRUE
    /\ mpc' = "download"
    /\ UNCHANGED <<envvars, output_files,
                   api_key, OPENAI_AVAILABLE, FASTER_WHISPER_AVAILABLE, files,
                   local_model, events, pc, call, ret, chunk_rets, args, audio_path,
                   output_dir, split_paths, chunked, transcription_result, saved_files,
                   exit_code>>

\* lines 144-152: download_audio returns the path of an existing file or
\* raises; the exception is caught at line 250
MainDownload ==
    /\ mpc = "download"
    /\ \/ \E size \in DownloadSizes :
             /\ files' = WriteFile(files, AudioPath, size)
             /\ audio_path' = AudioPath
             /\ mpc' = "create_output_directory"
             /\ UNCHANGED exit_code
       \/ /\ mpc' = "finally"
          /\ exit_code' = 1
          /\ UNCHANGED <<files, audio_path>>
    /\ UNCHANGED <<envvars, output_files,
                   config, local_model, events, pc, call, ret, chunk_rets, args,
                   output_dir, split_paths, chunked, transcription_result, saved_files>>

\* lines 154-156
MainCreateOutputDirectory ==
    /\ mpc = "create_output_directory"
    /\ output_dir' = TRUE
    /\ mpc' = "size_check"
    /\ UNCHANGED <<envvars, output_files,
                   config, files, local_model, events, pc, call, ret, chunk_rets, args,
                   audio_path, split_paths, chunked, transcription_result, saved_files,
                   exit_code>>

SplitReturns(r) ==
    /\ files' = r.w.files
    /\ events' = r.w.events
    /\ split_paths' = r.ret.result

\* MainSizeCheck splitting under every backend
MainSizeCheckAnyBackend ==
    /\ mpc = "size_check"
    /\ IF GetSize(files, audio_path) > CHUNKING_SIZE
       THEN \E so \in SplitOracles :
               /\ SplitReturns(SplitAudioForProcessing(MainWorld, audio_path,
                                                      CHUNK_MINUTES, so))
               /\ mpc' = "after_split"
       ELSE /\ mpc' = "transcribe"
            /\ UNCHANGED <<files, events, split_paths>>
    /\ UNCHANGED <<envvars, output_files,
                   config, local_model, pc, call, ret, chunk_rets, args, audio_path,
                   output_dir, chunked, transcription_result, saved_files, exit_code>>

\* lines 162-168: split the file when it is over 100 MB and the backend is
\* local or auto
MainSizeCheck ==
    /\ mpc = "size_check"
    /\ IF GetSize(files, audio_path) > CHUNKING_SIZE /\ args.backend \in {"local", "auto"}
       THEN \E so \in SplitOracles :
               /\ SplitReturns(SplitAudioForProcessing(MainWorld, audio_path,
                                                      CHUNK_MINUTES, so))
               /\ mpc' = "after_split"
       ELSE /\ mpc' = "transcribe"
            /\ UNCHANGED <<files, events, split_paths>>
    /\ UNCHANGED <<envvars, output_files,
                   config, local_model, pc, call, ret, chunk_rets, args, audio_path,
                   output_dir, chunked, transcription_result, saved_files, exit_code>>

MainChunkedReturns(r) ==
    /\ ChunkedReturns(r)
    /\ transcription_result' = r.ret.result

\* MainTranscribeChunked taken for every list that is not empty
MainTranscribeChunkedAnyList ==
    /\ mpc = "after_split"
    /\ Len(split_paths) >= 1
    /\ \E oracles \in [1..Len(split_paths) -> ChunkOracles("local")] :
          /\ call' = [op |-> "transcribe_chunked_audio", chunk_paths |-> split_paths,
                      backend |-> "local", model_size |-> args.model_size,
                      oracles |-> oracles, files |-> files, local_model |-> local_model]
          /\ MainChunkedReturns(TranscribeChunkedAudio(MainWorld, split_paths, "local",
                                                       args.model_size, oracles))
    /\ chunked' = TRUE
    /\ mpc' = "save"
    /\ UNCHANGED <<envvars, output_files,
                   config, pc, args, audio_path, output_dir, split_paths, saved_files,
                   exit_code>>

\* lines 170-175: more than one chunk, transcribe_chunked_audio with
\* backend="local"
MainTranscribeChunked ==
    /\ mpc = "after_split"
    /\ Len(split_paths) > 1
    /\ \E oracles \in [1..Len(split_paths) -> ChunkOracles("local")] :
          /\ call' = [op |-> "transcribe_chunked_audio", chunk_paths |-> split_paths,
                      backend |-> "local", model_size |-> args.model_size,
                      oracles |-> oracles, files |-> files, local_model |-> local_model]
          /\ MainChunkedReturns(TranscribeChunkedAudio(MainWorld, split_paths, "local",
                                                       args.model_size, oracles))
    /\ chunked' = TRUE
    /\ mpc' = "save"
    /\ UNCHANGED <<envvars, output_files,
                   config, pc, args, audio_path, output_dir, split_paths, saved_files,
                   exit_code>>

\* r.first is what the first transcribe call returned or raised
MainStageReturns(r) ==
    /\ files' = r.w.files
    /\ local_model' = r.w.local_model
    /\ events' = r.w.events
    /\ ret' = r.first
    /\ transcription_result' = r.result
    /\ IF r.outcome = "completed"
       THEN mpc' = "save" /\ UNCHANGED exit_code
       ELSE mpc' = "finally" /\ exit_code' = 1

\* lines 176-205: transcribe on the downloaded file, and the handler
MainTranscribe ==
    /\ \/ mpc = "transcribe"
       \/ mpc = "after_split" /\ Len(split_paths) <= 1
    /\ \E o \in Oracles :
          /\ call' = [op |-> "transcribe", audio_path |-> audio_path,
                      backend |-> args.backend, model_size |-> args.model_size,
                      oracle |-> o, files |-> files, local_model |-> local_model]
          /\ MainStageReturns(MainTranscribeStage(MainWorld, audio_path, args.backend,
                                                  args.model_size, o))
    /\ UNCHANGED <<envvars, output_files,
                   config, pc, chunk_rets, args, audio_path, output_dir, split_paths,
                   chunked, saved_files>>

\* lines 209-245: save_all_formats records the formats it could write; the
\* run then ends normally
MainSave ==
    /\ mpc = "save"
    /\ \E written \in SUBSET Formats : saved_files' = written
    /\ mpc' = "finally"
    /\ exit_code' = 0
    /\ UNCHANGED <<envvars, output_files,
                   config, files, local_model, events, pc, call, ret, chunk_rets, args,
                   audio_path, output_dir, split_paths, chunked, transcription_result>>

\* MainInterrupt leaving the process without the finally block
MainInterruptSkipsCleanup ==
    /\ mpc \in {"download", "create_output_directory", "size_check", "after_split",
                "transcribe", "save"}
    /\ mpc' = "exited"
    /\ exit_code' = 1
    /\ UNCHANGED <<envvars, output_files,
                   config, files, local_model, events, pc, call, ret, chunk_rets, args,
                   audio_path, output_dir, split_paths, chunked, transcription_result,
                   saved_files>>

\* lines 247-249: KeyboardInterrupt inside the try
MainInterrupt ==
    /\ mpc \in {"download", "create_output_directory", "size_check", "after_split",
                "transcribe", "save"}
    /\ mpc' = "finally"
    /\ exit_code' = 1
    /\ UNCHANGED <<envvars, output_files,
                   config, files, local_model, events, pc, call, ret, chunk_rets, args,
                   audio_path, output_dir, split_paths, chunked, transcription_result,
                   saved_files>>

\* lines 253-257: audio_extractor.cleanup() and transcriber.cleanup()
MainCleanup ==
    /\ mpc = "finally"
    /\ files' = ExtractorCleanup(files)
    /\ local_model' = "None"
    /\ mpc' = "exited"
    /\ UNCHANGED <<envvars, output_files,
                   config, events, pc, call, ret, chunk_rets, args, audio_path,
                   output_dir, split_paths, chunked, transcription_result, saved_files,
                   exit_code>>

NextMain ==
    \/ MainCheckDependencies
    \/ MainInitComponents
    \/ MainDownload
    \/ MainCreateOutputDirectory
    \/ MainSizeCheck
    \/ MainTranscribeChunked
    \/ MainTranscribe
    \/ MainSave
    \/ MainInterrupt
    \/ MainCleanup

SpecMain == InitMain /\ [][NextMain]_vars

----------------------------------------------------------------------------
(* Properties of the pipeline (specification SpecMain) *)

\* the transcription stage of main has run on the downloaded file
MainTranscribed == mpc \in {"save", "finally", "exited"} /\ call # NoCall

\* the run was started with backend=api and the API path raised
\* MissingCredential or SizeLimitExceeded
ApiRaisedFatal ==
    /\ MainTranscribed /\ call.op = "transcribe" /\ args.backend = "api"
    /\ ~ret.ok /\ ret.exc = "TranscriptionError"
    /\ ret.msg \in {MsgNoApiKey} \cup SizeLimitMessages

C10_NoChunkSucceededFailsRun ==
    (chunked /\ \A k \in 1..Len(chunk_rets) : ~chunk_rets[k].ok)
    => (saved_files = {} /\ exit_code # 0)

\* the run split the download: the splitter was called and has returned
SplitDone == MainTranscribed /\ HasEvent("ffprobe")

\* C15: in a run where the splitter returned a list of at most one element,
\* transcribe_chunked_audio is not called; transcribe is called exactly once,
\* on the downloaded file, with the backend and the model size of the command
\* line.
C15_SingleElementMeansNoChunking ==
    (SplitDone /\ Len(split_paths) <= 1)
    => /\ ~chunked
       /\ ~HasEvent("transcribe_chunked_audio")
       /\ call.op = "transcribe"
       /\ Cardinality(EventsOf("transcribe")) = 1
       /\ \A i \in EventsOf("transcribe") :
             /\ events[i].path = audio_path /\ audio_path = AudioPath
             /\ events[i].arg = args.backend
       /\ call.model_size = args.model_size
       /\ \A i \in EventsOf("transcribe_with_local") :
             events[i].path = audio_path /\ events[i].arg = args.model_size

C15_Witness ==
    /\ SplitDone /\ split_paths = <<AudioPath>>
    /\ args.backend = "auto" /\ args.model_size = "base"
    /\ ~chunked /\ ret.ok /\ mpc = "save"
    /\ HasEvent("transcribe_with_local")

\* the finally block (lines 253-257) runs whenever the try statement is left
SpecMainLive == SpecMain /\ WF_vars(MainCleanup)

Constructed == audio_extractor
RunEnded == Constructed /\ exit_code # -1
Cleaned ==
    /\ \A q \in DOMAIN files : files[q] = NoFile
    /\ local_model = "None"

SplitStep == mpc = "size_check" /\ mpc' = "after_split"
TranscribeStep ==
    /\ mpc \in {"transcribe", "after_split"}
    /\ call' # call /\ call'.op = "transcribe"
Changed(q) == q \notin DOMAIN files \/ files'[q] # files[q]

\* C23: a call of transcribe leaves the file at the audio path as it was,
\* whether it returns or raises and under every backend; the only file it
\* may write is <audio path>_compressed; a call of the splitter writes only
\* chunk files and leaves the audio path as it was.
C23_InputAssetNotMutated ==
    [][/\ TranscribeStep
          => /\ files'[audio_path] = files[audio_path]
             /\ \A q \in DOMAIN files' : Changed(q) => q = CompressedPath(audio_path)
       /\ SplitStep
          => /\ files'[audio_path] = files[audio_path]
             /\ \A q \in DOMAIN files' :
                   Changed(q) => (q.base = audio_path.base /\ q.chunk > 0
                                  /\ q.compressed = 0)]_vars

C23_Witness ==
    /\ mpc = "save" /\ call # NoCall /\ call.op = "transcribe"
    /\ args.backend = "api" /\ ret.ok
    /\ GetSize(files, audio_path) > MAX_SIZE
    /\ files[audio_path] = call.files[audio_path]
    /\ Exists(files, CompressedPath(audio_path))

\* the size check is behind the run and the files are still there
PastSizeCheck ==
    \/ mpc \in {"after_split", "transcribe", "save"}
    \/ mpc = "finally" /\ call # NoCall
Large == GetSize(files, audio_path) > CHUNKING_SIZE

\* C28: the run takes the chunked branch, that is, calls the splitter,
\* exactly when the download is larger than 100 MB and the backend is local
\* or auto; when chunks are transcribed, each is transcribed with the local
\* backend and the API is not attempted; under backend api nothing is split.
C28_ChunkingChoice ==
    PastSizeCheck
    => /\ HasEvent("ffprobe") <=> (Large /\ args.backend \in {"local", "auto"})
       /\ chunked
          => /\ HasEvent("ffprobe")
             /\ \A i \in EventsOf("transcribe") :
                   /\ events[i].arg = "local"
                   /\ events[i].path \in {split_paths[k] : k \in 1..Len(split_paths)}
             /\ Cardinality(EventsOf("transcribe")) = Len(split_paths)
             /\ ~HasEvent("transcribe_with_api")
             /\ ~HasEvent("api_request")
       /\ args.backend = "api"
          => /\ ~HasEvent("ffprobe")
             /\ ~HasEvent("split_ffmpeg")
             /\ ~chunked

C28_Witness ==
    /\ PastSizeCheck /\ Large /\ args.backend = "auto" /\ chunked
    /\ api_key /\ OPENAI_AVAILABLE
    /\ Len(split_paths) = 3
    /\ Cardinality(EventsOf("transcribe")) = 3

----------------------------------------------------------------------------
(* Specification SpecExtractor: calls of the AudioExtractor on a file in its *)
(* temporary directory: split_audio_for_processing once, or                 *)
(* compress_audio_for_api once and then again on what it returned           *)

ExtractorSizes == {NoFile, MIN_SIZE, MAX_SIZE, MAX_SIZE + 1, CHUNKING_SIZE + 1}

\* a compressed copy that an earlier call left behind, or none
StaleSizes == {NoFile, MIN_SIZE}

ChunkMinutes == {5, 10}

InitExtractor ==
    /\ api_key = FALSE
    /\ OPENAI_AVAILABLE = FALSE
    /\ FASTER_WHISPER_AVAILABLE = FALSE
    /\ audio_extractor = TRUE
    /\ \E size \in ExtractorSizes, stale \in StaleSizes :
          files = [q \in {AudioPath, CompressedPath(AudioPath)}
                         \cup {ChunkPath(AudioPath, i) : i \in 1..(2 * MaxChunks)}
                   |-> IF q = AudioPath THEN size
                       ELSE IF q = CompressedPath(AudioPath) THEN stale
                       ELSE NoFile]
    /\ local_model = "None"
    /\ events = <<>>
    /\ output_files = NoOutput
    /\ EnvIdle
    /\ pc = "idle"
    /\ call = NoCall
    /\ ret = NoRet
    /\ chunk_rets = <<>>
    /\ MainIdle

\* ffprobe reports a duration only for a file that is there
SplitCall ==
    /\ pc = "idle"
    /\ \E chunk_duration_minutes \in ChunkMinutes, so \in SplitOracles :
          /\ so.probe = "ok" => Exists(files, AudioPath)
          /\ call' = [op |-> "split_audio_for_processing", audio_path |-> AudioPath,
                      chunk_duration_minutes |-> chunk_duration_minutes,
                      oracle |-> so, files |-> files, round |-> 1]
          /\ Returns(SplitAudioForProcessing(World, AudioPath, chunk_duration_minutes, so))
    /\ pc' = "returned"
    /\ UNCHANGED <<envvars, output_files, config, chunk_rets, mainvars>>

CompressCall ==
    /\ pc = "idle"
    /\ \E o \in FfmpegOutcomes :
          /\ call' = [op |-> "compress_audio_for_api", audio_path |-> AudioPath,
                      oracle |-> o, files |-> files, round |-> 1,
                      first_path |-> AudioPath, first_files |-> files]
          /\ Returns(CompressAudioForApi(World, AudioPath, o))
    /\ pc' = "returned"
    /\ UNCHANGED <<envvars, output_files, config, chunk_rets, mainvars>>

\* the second call, on the path that the first call returned
CompressAgainCall ==
    /\ pc = "returned" /\ call.op = "compress_audio_for_api" /\ call.round = 1
    /\ ret.ok
    /\ \E o \in FfmpegOutcomes :
          /\ call' = [call EXCEPT !.audio_path = ret.result, !.oracle = o,
                                  !.files = files, !.round = 2]
          /\ Returns(CompressAudioForApi(World, ret.result, o))
    /\ pc' = "returned"
    /\ UNCHANGED <<envvars, output_files, config, chunk_rets, mainvars>>

NextExtractor ==
    \/ SplitCall
    \/ CompressCall
    \/ CompressAgainCall

SpecExtractor == InitExtractor /\ [][NextExtractor]_vars

----------------------------------------------------------------------------
(* Properties of the AudioExtractor (specification SpecExtractor) *)

IsSplitStart(e) == e.ev = "split_ffmpeg"
IsSplitLength(e) == e.ev = "split_ffmpeg_t"
IsFailedExtraction(e) == e.ev = "split_ffmpeg" /\ e.arg = "error"

\* the -ss and the -t arguments of the runs of ffmpeg, in the order of the runs
Starts == SelectSeq(events, IsSplitStart)
Lengths == SelectSeq(events, IsSplitLength)

SplitT == call.oracle.total_duration
SplitL == call.chunk_duration_minutes * 60

ProbeFailed == call.oracle.probe # "ok"
ExtractionFailed == SelectSeq(events, IsFailedExtraction) # <<>>

\* the end of the window of chunk i: ffmpeg copies the requested length or
\* up to the end of the input, whichever comes first
WindowEnd(i) ==
    IF Starts[i].n + Lengths[i].n < SplitT THEN Starts[i].n + Lengths[i].n ELSE SplitT

\* C13: when the probe and every extraction succeed, the list returned names
\* the chunks in time order; chunk i (from 0) starts at i*L and is requested
\* with length L; each window ends where the next starts; the windows cover
\* [0, T); every chunk starts before T; only the last window is shorter than L.
C13_WindowsPartitionTheAudio ==
    (Returned("split_audio_for_processing") /\ ~ProbeFailed /\ ~ExtractionFailed)
    => /\ ret.ok
       /\ Len(Starts) = Len(ret.result) /\ Len(Lengths) = Len(ret.result)
       /\ \A i \in 1..Len(ret.result) :
             /\ ret.result[i] = ChunkPath(call.audio_path, i)
             /\ Starts[i].path = ret.result[i] /\ Lengths[i].path = ret.result[i]
             /\ Exists(files, ret.result[i])
             /\ Starts[i].n = (i - 1) * SplitL
             /\ Lengths[i].n = SplitL
             /\ Starts[i].n < SplitT
             /\ i < Len(ret.result)
                   => /\ WindowEnd(i) = Starts[i + 1].n
                      /\ WindowEnd(i) - Starts[i].n = SplitL
       /\ IF ret.result = <<>> THEN SplitT = 0
          ELSE Starts[1].n = 0 /\ WindowEnd(Len(ret.result)) = SplitT

C13_Witness ==
    /\ Returned("split_audio_for_processing") /\ ~ProbeFailed /\ ~ExtractionFailed
    /\ SplitT = 1200 /\ SplitL = 600
    /\ Len(ret.result) = 2
    /\ Starts[2].n = 600 /\ WindowEnd(2) = 1200

\* C14 as claimed: the call never raises; when the probe or an extraction
\* fails it returns the list of just the original path; the list returned is
\* never empty.
C14_SplitNeverEmpty ==
    Returned("split_audio_for_processing")
    => /\ ret.ok
       /\ (ProbeFailed \/ ExtractionFailed) => ret.result = <<call.audio_path>>
       /\ ret.result # <<>>

\* C14: the call never raises; when the probe or an extraction fails, also
\* after earlier chunks were made, it returns the list of just the original
\* path; the list returned is empty exactly when the probe succeeds with a
\* duration of 0.
C14_SplitDegradesToOriginal ==
    Returned("split_audio_for_processing")
    => /\ ret.ok
       /\ (ProbeFailed \/ ExtractionFailed) => ret.result = <<call.audio_path>>
       /\ ret.result = <<>> <=> (~ProbeFailed /\ SplitT = 0)

C14_Witness ==
    /\ Returned("split_audio_for_processing") /\ ~ProbeFailed /\ ExtractionFailed
    /\ Len(Starts) = 2 /\ Starts[1].arg = "ok" /\ Starts[2].arg = "error"
    /\ Exists(files, ChunkPath(call.audio_path, 1))
    /\ ret.result = <<call.audio_path>>

CompressReturned == Returned("compress_audio_for_api")
IsFfmpegEvent(e) == e.ev = "ffmpeg"

\* C16: on a file of at most 25 MB compress_audio_for_api returns the path it
\* was given, runs no ffmpeg and leaves every file as it was; called again on
\* what it returned, it returns the same path, again with nothing changed.
C16_CompressUnderCeilingIsNoOp ==
    /\ (CompressReturned /\ Exists(call.files, call.audio_path)
          /\ GetSize(call.files, call.audio_path) <= MAX_SIZE)
       => /\ ret = Return(call.audio_path)
          /\ files = call.files
          /\ SelectSeq(events, IsFfmpegEvent) = <<>>
    /\ (CompressReturned /\ call.round = 2
          /\ GetSize(call.first_files, call.first_path) <= MAX_SIZE)
       => /\ ret = Return(call.first_path)
          /\ files = call.first_files

C16_Witness ==
    /\ CompressReturned /\ call.round = 2
    /\ GetSize(call.first_files, call.first_path) = MAX_SIZE
    /\ ret = Return(AudioPath)
    /\ files = call.first_files

\* C17: when the re-encoding of a file over the ceiling fails, whatever the
\* reason, compress_audio_for_api returns the path it was given and does not
\* raise.
C17_FailedReencodingReturnsOriginal ==
    (CompressReturned /\ Exists(call.files, call.audio_path)
       /\ GetSize(call.files, call.audio_path) > MAX_SIZE
       /\ call.oracle.ffmpeg # "ok")
    => ret = Return(call.audio_path)

----------------------------------------------------------------------------
(* FileFormatter: format_timestamp, create_srt, create_vtt                  *)
(* A file is the sequence of its lines; times are whole seconds.            *)

Digits == <<"0", "1", "2", "3", "4", "5", "6", "7", "8", "9">>

\* str(n) for n >= 0
RECURSIVE Str(_)
Str(n) == IF n < 10 THEN Digits[n + 1] ELSE Str(n \div 10) \o Digits[(n % 10) + 1]

\* the format specification 0<width>d applied to the decimal numeral t
RECURSIVE ZeroPad(_, _)
ZeroPad(t, width) == IF Len(t) >= width THEN t ELSE ZeroPad("0" \o t, width)

\* a text of the model, a sequence of characters, as one string
RECURSIVE Concat(_)
Concat(chars) == IF chars = <<>> THEN "" ELSE Head(chars) \o Concat(Tail(chars))

\* lines 32-48
FormatTimestamp(seconds, srt_format) ==
    LET hours == seconds \div 3600
        minutes == (seconds % 3600) \div 60
        secs == seconds % 60
        milliseconds == (seconds % 1) * 1000
    IN  ZeroPad(Str(hours), 2) \o ":" \o ZeroPad(Str(minutes), 2) \o ":"
        \o ZeroPad(Str(secs), 2) \o (IF srt_format THEN "," ELSE ".")
        \o ZeroPad(Str(milliseconds), 3)

PlaceholderText == "[Transcript available in .txt file - no timing data from API]"

\* open(output_path, 'w') and the writes up to the close of the file
WriteLines(fs, output_path, lines) ==
    [q \in DOMAIN fs \cup {output_path} |-> IF q = output_path THEN lines ELSE fs[q]]

\* lines 61-69: the cues of segments i, i+1, ... (i as enumerate(segments, 1)
\* counts)
RECURSIVE SrtCues(_, _)
SrtCues(segments, i) ==
    IF i > Len(segments) THEN <<>>
    ELSE (IF Strip(segments[i].text) # <<>>
          THEN <<Str(i),
                 FormatTimestamp(segments[i].start, TRUE) \o " --> "
                     \o FormatTimestamp(segments[i].end, TRUE),
                 Concat(Strip(segments[i].text)),
                 "">>
          ELSE <<>>)
         \o SrtCues(segments, i + 1)

\* create_srt writing an empty file for an empty list of segments
CreateSrtNoPlaceholder(fs, segments, output_path, io) ==
    IF io # "ok" THEN [files |-> fs, ret |-> Return(FALSE)]
    ELSE [files |-> WriteLines(fs, output_path, SrtCues(segments, 1)),
          ret |-> Return(TRUE)]

\* lines 50-76.  io: "ok", or "error" when the file cannot be opened for
\* writing; every exception ends in return False.
CreateSrt(fs, segments, output_path, io) ==
    IF io # "ok" THEN [files |-> fs, ret |-> Return(FALSE)]
    ELSE IF segments = <<>>
    THEN [files |-> WriteLines(fs, output_path,
                               <<"1", "00:00:00,000 --> 00:05:00,000",
                                 PlaceholderText, "">>),
          ret |-> Return(TRUE)]
    ELSE [files |-> WriteLines(fs, output_path, SrtCues(segments, 1)),
          ret |-> Return(TRUE)]

\* lines 90-97
RECURSIVE VttCues(_, _)
VttCues(segments, i) ==
    IF i > Len(segments) THEN <<>>
    ELSE (IF Strip(segments[i].text) # <<>>
          THEN <<FormatTimestamp(segments[i].start, FALSE) \o " --> "
                     \o FormatTimestamp(segments[i].end, FALSE),
                 Concat(Strip(segments[i].text)),
                 "">>
          ELSE <<>>)
         \o VttCues(segments, i + 1)

\* lines 78-104
CreateVtt(fs, segments, output_path, io) ==
    IF io # "ok" THEN [files |-> fs, ret |-> Return(FALSE)]
    ELSE IF segments = <<>>
    THEN [files |-> WriteLines(fs, output_path,
                               <<"WEBVTT", "", "00:00:00.000 --> 00:05:00.000",
                                 PlaceholderText, "">>),
          ret |-> Return(TRUE)]
    ELSE [files |-> WriteLines(fs, output_path,
                               <<"WEBVTT", "">> \o VttCues(segments, 1)),
          ret |-> Return(TRUE)]

----------------------------------------------------------------------------
(* Specification SpecFormatter: one call of create_srt or of create_vtt *)

MaxSegments == 3

\* segments as a caller may pass them: texts with and without surrounding
\* blanks, a blank text, a time beyond one hour
FormatterSegments == {RawSegment(0, 2, <<"a">>),
                      RawSegment(2, 3, <<" ">>),
                      RawSegment(3, 7, <<"b", " ", "c", " ">>),
                      RawSegment(3725, 3730, <<" ", "d">>)}

SegmentLists == UNION {[1..n -> FormatterSegments] : n \in 0..MaxSegments}

SrtPath == "transcript.srt"
VttPath == "transcript.vtt"
IoOutcomes == {"ok", "error"}

InitFormatter ==
    /\ api_key = FALSE
    /\ OPENAI_AVAILABLE = FALSE
    /\ FASTER_WHISPER_AVAILABLE = FALSE
    /\ audio_extractor = FALSE
    /\ files = [q \in {AudioPath} |-> NoFile]
    /\ local_model = "None"
    /\ events = <<>>
    /\ output_files \in {NoOutput, [q \in {SrtPath, VttPath} |-> <<"old">>]}
    /\ EnvIdle
    /\ pc = "idle"
    /\ call = NoCall
    /\ ret = NoRet
    /\ chunk_rets = <<>>
    /\ MainIdle

FormatterReturns(r) ==
    /\ output_files' = r.files
    /\ ret' = r.ret

CreateSrtCall ==
    /\ pc = "idle"
    /\ \E segments \in SegmentLists, io \in IoOutcomes :
          /\ call' = [op |-> "create_srt", segments |-> segments,
                      output_path |-> SrtPath, io |-> io]
          /\ FormatterReturns(CreateSrt(output_files, segments, SrtPath, io))
    /\ pc' = "returned"
    /\ UNCHANGED <<envvars, config, files, local_model, events, chunk_rets, mainvars>>

CreateVttCall ==
    /\ pc = "idle"
    /\ \E segments \in SegmentLists, io \in IoOutcomes :
          /\ call' = [op |-> "create_vtt", segments |-> segments,
                      output_path |-> VttPath, io |-> io]
          /\ FormatterReturns(CreateVtt(output_files, segments, VttPath, io))
    /\ pc' = "returned"
    /\ UNCHANGED <<envvars, config, files, local_model, events, chunk_rets, mainvars>>

NextFormatter ==
    \/ CreateSrtCall
    \/ CreateVttCall

SpecFormatter == InitFormatter /\ [][NextFormatter]_vars

----------------------------------------------------------------------------
(* Properties of the FileFormatter (specification SpecFormatter) *)

\* the call could open its output file
Opened == call.io = "ok"
Written == output_files[call.output_path]

CuesWritten == Len(Written) \div 4
CueNumber(j) == Written[4 * (j - 1) + 1]

\* C19: for a non-empty list of segments, the cues that create_srt writes
\* are numbered 1, 2, ..., k in the order written, k the number of cues
\* written.
C19_CuesNumberedSequentially ==
    (Returned("create_srt") /\ call.segments # <<>> /\ Opened)
    => \A j \in 1..CuesWritten : CueNumber(j) = Str(j)

----------------------------------------------------------------------------
(* interactive_cli.select_output_options *)

DefaultOutputDir == <<".", "/", "o", "u", "t", "p", "u", "t", "s">>

\* what select_output_options hands back after reading `read` lines
Selected(r, read) == [ret |-> r, read |-> read]

\* the `while True` loop over the summary choice; n lines are read so far.
\* input() with nothing left to read raises EOFError
RECURSIVE SummaryChoice(_, _, _)
SummaryChoice(inputs, n, dir) ==
    IF n >= Len(inputs)
    THEN Selected(Raise("EOFError", "input"), n)
    ELSE LET choice == Strip(inputs[n + 1])
         IN IF choice = <<"1">>
            THEN Selected(Return(<<dir, TRUE>>), n + 1)
            ELSE IF choice = <<"2">>
            THEN Selected(Return(<<dir, FALSE>>), n + 1)
            ELSE SummaryChoice(inputs, n + 1, dir)

SelectOutputOptions(inputs) ==
    IF inputs = <<>>
    THEN Selected(Raise("EOFError", "input"), 0)
    ELSE LET typed == Strip(inputs[1])
         IN SummaryChoice(inputs, 1, IF typed = <<>> THEN DefaultOutputDir ELSE typed)

----------------------------------------------------------------------------
(* Specification SpecCli: one call of select_output_options on the lines   *)
(* the user types                                                          *)

MaxInputs == 3

\* a line typed at a prompt: nothing, a directory, a choice, with and
\* without surrounding blanks, something that is no choice
TypedLines == {<<>>, <<"d">>, <<" ", "d">>, <<"1">>, <<"2", " ">>, <<"x">>}

TypedSessions == UNION {[1..n -> TypedLines] : n \in 0..MaxInputs}

InitCli ==
    /\ api_key = FALSE
    /\ OPENAI_AVAILABLE = FALSE
    /\ FASTER_WHISPER_AVAILABLE = FALSE
    /\ audio_extractor = FALSE
    /\ files = [q \in {AudioPath} |-> NoFile]
    /\ local_model = "None"
    /\ events = <<>>
    /\ output_files = NoOutput
    /\ stdin \in TypedSessions
    /\ dirs = {}
    /\ runs = <<>>
    /\ pc = "idle"
    /\ call = NoCall
    /\ ret = NoRet
    /\ chunk_rets = <<>>
    /\ MainIdle

SelectOutputOptionsReturns(r) ==
    /\ ret' = r.ret
    /\ stdin' = SubSeq(stdin, r.read + 1, Len(stdin))

SelectOutputOptionsCall ==
    /\ pc = "idle"
    /\ call' = [op |-> "select_output_options", inputs |-> stdin]
    /\ SelectOutputOptionsReturns(SelectOutputOptions(stdin))
    /\ pc' = "returned"
    /\ UNCHANGED <<dirs, runs, output_files, config, files, local_model, events,
                   chunk_rets, mainvars>>

NextCli == SelectOutputOptionsCall

SpecCli == InitCli /\ [][NextCli]_vars

----------------------------------------------------------------------------
(* Properties of the interactive CLI (specification SpecCli) *)

\* the number of lines the call read
LinesRead == Len(call.inputs) - Len(stdin)

\* C25: select_output_options returns the triple (output_dir,
\* should_summarize, gpt_model); it reads a third line, the GPT model, only
\* when a summary was requested, and exactly two lines otherwise.
C25_ReturnsTripleAsksModelOnlyForSummary ==
    (Returned("select_output_options") /\ ret.ok) =>
        /\ Len(ret.result) = 3
        /\ LinesRead = IF ret.result[2] THEN 3 ELSE 2

----------------------------------------------------------------------------
(* yt2transcript.create_output_directory *)

\* os.path.join(base_dir, safe_title) is the directory with suffix 0,
\* f"{original_dir}_{counter}" the one with suffix counter
Dir(k) == [title |-> "safe_title", suffix |-> k]
OriginalDir == Dir(0)
Suffixed(original_dir, counter) == [original_dir EXCEPT !.suffix = counter]

\* os.path.join(output_dir, 'transcript.txt')
TranscriptPath(d) == [dir |-> d, name |-> "transcript.txt"]

\* os.path.exists
DirExists(existing, d) == d \in existing

\* os.makedirs(d): FileExistsError when d exists already
MakedirsExclusive(existing, d) == [dirs |-> existing \cup {d}, ok |-> d \notin existing]

\* os.makedirs(d, exist_ok=True)
Makedirs(existing, d) == [dirs |-> existing \cup {d}, ok |-> TRUE]

\* an invocation: its position, its locals output_dir and counter; `before`
\* (the directories that existed when it was called) and `overlap` (another
\* invocation ran between its call and its return) record its history
NoRun == [pc |-> "idle", output_dir |-> OriginalDir, counter |-> 1,
          before |-> {}, overlap |-> FALSE]

Entered(existing, overlap) ==
    [pc |-> "check", output_dir |-> OriginalDir, counter |-> 1,
     before |-> existing, overlap |-> overlap]

\* the body of the while loop, taking the suffix one too high
NextCandidateSkipsOne(r) ==
    [r EXCEPT !.output_dir = Suffixed(OriginalDir, r.counter + 1),
              !.counter = r.counter + 1]

\* the body of the while loop
NextCandidate(r) ==
    [r EXCEPT !.output_dir = Suffixed(OriginalDir, r.counter),
              !.counter = r.counter + 1]

----------------------------------------------------------------------------
(* Specification SpecDirs: invocations of the program with the same base   *)
(* directory and title, each creating its output directory and saving its  *)
(* transcript there; every file-system call is a step of its own           *)

MaxRuns == 2
MaxSuffix == 2

Runs == 1..MaxRuns

\* the directories that exist before any invocation
ExistingDirs == {{Dir(k) : k \in S} : S \in SUBSET (0..MaxSuffix)}

InitDirs ==
    /\ api_key = FALSE
    /\ OPENAI_AVAILABLE = FALSE
    /\ FASTER_WHISPER_AVAILABLE = FALSE
    /\ audio_extractor = FALSE
    /\ files = [q \in {AudioPath} |-> NoFile]
    /\ local_model = "None"
    /\ events = <<>>
    /\ output_files = NoOutput
    /\ stdin = <<>>
    /\ dirs \in ExistingDirs
    /\ runs = [i \in Runs |-> NoRun]
    /\ pc = "idle"
    /\ call = NoCall
    /\ ret = NoRet
    /\ chunk_rets = <<>>
    /\ MainIdle

Active(i) == runs[i].pc \in {"check", "makedirs"}

\* the call: output_dir = os.path.join(...); counter = 1
CreateOutputDirectoryCall(i) ==
    /\ runs[i].pc = "idle"
    /\ LET concurrent == {j \in Runs \ {i} : Active(j)}
       IN runs' = [j \in Runs |->
                     IF j = i THEN Entered(dirs, concurrent # {})
                     ELSE IF j \in concurrent THEN [runs[j] EXCEPT !.overlap = TRUE]
                     ELSE runs[j]]
    /\ UNCHANGED <<dirs, output_files, stdin, config, files, local_model, events,
                   pc, call, ret, chunk_rets, mainvars>>

\* one evaluation of `while os.path.exists(output_dir)` and the loop body
ExistsStep(i) ==
    /\ runs[i].pc = "check"
    /\ IF DirExists(dirs, runs[i].output_dir)
       THEN runs' = [runs EXCEPT ![i] = NextCandidate(runs[i])]
       ELSE runs' = [runs EXCEPT ![i].pc = "makedirs"]
    /\ UNCHANGED <<dirs, output_files, stdin, config, files, local_model, events,
                   pc, call, ret, chunk_rets, mainvars>>

MakedirsReturns(i, m) ==
    /\ dirs' = m.dirs
    /\ runs' = [runs EXCEPT ![i].pc = IF m.ok THEN "returned" ELSE "raised"]

\* os.makedirs(output_dir, exist_ok=True); return output_dir
MakedirsStep(i) ==
    /\ runs[i].pc = "makedirs"
    /\ MakedirsReturns(i, Makedirs(dirs, runs[i].output_dir))
    /\ UNCHANGED <<output_files, stdin, config, files, local_model, events,
                   pc, call, ret, chunk_rets, mainvars>>

\* the lines of the transcript that invocation i saves
TranscriptOf(i) == <<i>>

WriteTranscript(fs, d, i) ==
    [q \in DOMAIN fs \cup {TranscriptPath(d)} |->
        IF q = TranscriptPath(d) THEN TranscriptOf(i) ELSE fs[q]]

\* FileFormatter.save_all_formats(result, output_dir, ...): makes sure the
\* directory exists and writes the files under their fixed names
SaveAllFormatsStep(i) ==
    /\ runs[i].pc = "returned"
    /\ dirs' = Makedirs(dirs, runs[i].output_dir).dirs
    /\ output_files' = WriteTranscript(output_files, runs[i].output_dir, i)
    /\ runs' = [runs EXCEPT ![i].pc = "saved"]
    /\ UNCHANGED <<stdin, config, files, local_model, events,
                   pc, call, ret, chunk_rets, mainvars>>

NextDirs ==
    \E i \in Runs :
        \/ CreateOutputDirectoryCall(i)
        \/ ExistsStep(i)
        \/ MakedirsStep(i)
        \/ SaveAllFormatsStep(i)

SpecDirs == InitDirs /\ [][NextDirs]_vars

\* an invocation that was called keeps running until it returns
SpecDirsLive ==
    SpecDirs /\ \A i \in Runs : WF_vars(ExistsStep(i)) /\ WF_vars(MakedirsStep(i))

----------------------------------------------------------------------------
(* Properties of create_output_directory (SpecDirs, SpecDirsLive) *)

\* invocation i has returned its directory
Done(i) == runs[i].pc \in {"returned", "saved"}

\* no other invocation ran between i's call and i's return
Sequential(i) == Done(i) /\ ~runs[i].overlap

\* base/title when it is free, else base/title_k for the smallest k >= 1
\* such that base/title_k does not exist
FirstFree(existing) ==
    IF OriginalDir \notin existing THEN OriginalDir
    ELSE Dir(CHOOSE k \in 1..(Cardinality(existing) + 1) :
                /\ Dir(k) \notin existing
                /\ \A m \in 1..(k - 1) : Dir(m) \in existing)

\* C29: create_output_directory terminates; called with no other invocation
\* running, it returns a directory that did not exist before the call,
\* base/title when that is free and otherwise base/title_k for the smallest
\* free k >= 1; the directory exists afterwards, and successive sequential
\* calls return pairwise distinct directories.
C29_SequentialCallsGetFreshDirectories ==
    /\ [](\A i \in Runs : Sequential(i) =>
             /\ runs[i].output_dir \notin runs[i].before
             /\ runs[i].output_dir = FirstFree(runs[i].before)
             /\ runs[i].output_dir \in dirs)
    /\ [](\A i, j \in Runs : (i # j /\ Sequential(i) /\ Sequential(j)) =>
             runs[i].output_dir # runs[j].output_dir)
    /\ \A i \in Runs : (runs[i].pc = "check") ~> Done(i)

\* two sequential invocations returned; the first found base/title taken
\* and base/title_1 too
C29_Witness ==
    /\ \A i \in Runs : Sequential(i)
    /\ \E i \in Runs : runs[i].output_dir = Dir(2) /\ Dir(1) \in runs[i].before

\* C30: the creation tolerates a directory that exists already, so an
\* invocation never fails at it; two invocations return the same directory
\* only when they interleave, and then both save their transcript into it.
C30_SameDirectoryOnlyWhenInterleaved ==
    /\ \A i \in Runs : runs[i].pc # "raised"
    /\ \A i \in Runs : Done(i) => runs[i].output_dir \in dirs
    /\ \A i, j \in Runs :
          (i # j /\ Done(i) /\ Done(j) /\ runs[i].output_dir = runs[j].output_dir)
             => (runs[i].overlap /\ runs[j].overlap)

\* two interleaved invocations returned the same directory and both saved
\* their transcript there: the file holds what the later one wrote
C30_Witness ==
    \E i, j \in Runs :
        /\ i # j
        /\ runs[i].pc = "saved" /\ runs[j].pc = "saved"
        /\ runs[i].output_dir = runs[j].output_dir
        /\ output_files[TranscriptPath(runs[i].output_dir)] \in {TranscriptOf(i), TranscriptOf(j)}

====
